---- MODULE Spec2Model ----
(***************************************************************************)
(* Model of the xraycheck Hysteria 2 validation engine:                    *)
(*   hysteria_checker.py   check_hysteria_key, run_hysteria,               *)
(*                         kill_hysteria, main                             *)
(*   speedtest_hysteria.py speed_test_hysteria_key, main                   *)
(*   lib/port_pool.py      take_port, return_port (imported; the module    *)
(*                         itself is not among the sources, so the pool    *)
(*                         follows the documented contract)                *)
(*                                                                         *)
(* One batch is modelled: a ThreadPoolExecutor runs one task per           *)
(* candidate, the main thread collects the futures as they complete.       *)
(* A task is cut into steps at the points where it touches state that      *)
(* other threads or the operating system can see: the port pool, the       *)
(* client process, the transient config file, the future's result.         *)
(***************************************************************************)
EXTENDS Integers, FiniteSets, Sequences, TLC

\* ---------------------------------------------------------------- bounds
NumTasks == 2          \* candidates in the batch (len(links_only))
MaxPorts == 2          \* largest port pool considered
MaxWorkersBound == 2   \* largest number of executor threads considered
StartupPolls == 1      \* iterations of the startup-wait loop (WAIT / POLL)
MaxClients == 2        \* callers of the pool exercised on its own
MaxCalls == 7          \* pool calls in one such run
MaxStrongAttempts == 5 \* largest STRONG_ATTEMPTS considered
MaxElapsed == 2        \* longest elapsed time of a request, in whole units
MaxTimeLimit == 2      \* largest response-time limit considered
MaxRounds == 2         \* largest STABILITY_CHECKS considered
MaxUrls == 2           \* most probe URLs configured (http and https together)
MaxRequests == 2       \* largest REQUESTS_PER_URL considered
MaxStartupWait == 2    \* largest HYSTERIA_STARTUP_WAIT considered
MaxStartupPoll == 2    \* largest HYSTERIA_STARTUP_POLL considered
MaxPortWait == 2       \* largest HYSTERIA_PORT_WAIT considered
MaxProbeRequests == 2  \* most requests one protocol run makes
MaxLinks == 2          \* most candidates of a batch whose results are free
MaxSamples == 2        \* most response times one result carries
MaxOver == 1           \* how far a large batch goes beyond the top-N limit
MaxLines == 2          \* most lines the speedtest reads
MaxSpeedRequests == 3  \* largest SPEED_TEST_REQUESTS considered
MaxSpeedTimeout == 2   \* largest SPEED_TEST_TIMEOUT considered, whole units
MaxDownloaded == 1     \* most data one download brings, in units of 125 kB
MaxDownloadTime == 3   \* longest download, in tenths of a second
MaxDedupLinks == 3     \* distinct links the checker's input may hold
MaxNorms == 2          \* distinct non-empty normalized keys
MaxInput == 3          \* most lines of the checker's input
MaxExit == 2           \* largest exit status a launched program returns
MaxMergeLinks == 2     \* distinct links in the lists the entrypoint merges
MaxMergeLines == 2     \* most lines of a short list the entrypoint merges
MaxFilterLines == 2    \* most lines the endpoint filter reads
MaxRuleLines == 2      \* most lines of the exclusion list
MaxIps == 2            \* distinct addresses the rewritten links resolve to
MaxGeoLines == 3       \* most links the comment rewriter reads

Tasks == 1..NumTasks
NoPort == 0            \* take_port() returning None

VARIABLES
    prog,        \* "checker" (hysteria_checker.main) or "speedtest"
    max_workers, \* ThreadPoolExecutor(max_workers=...), fixed for the run
    ports,       \* the pool's port range, fixed for the run
    free,        \* the pool's free set
    pc,          \* position of each task
    port,        \* local variable port of each task
    proc,        \* state of the client process each task spawned
    file,        \* TRUE while the task's config_path exists on disk
    waited,      \* startup-wait iterations done
    early,       \* return_port(port) already called inside the try block
    ret,         \* what the future resolves to: "ok", "fail", "raised"
    why,         \* the exit path the task took
    spawns,      \* run_hysteria calls made by the task
    probes,      \* tasks that reached the probing protocol (0/1)
    collected,   \* futures the main thread has consumed
    all_metrics, \* the checker's result dictionary, per link
    writes,      \* number of assignments all_metrics[link] = ...
    advanced,    \* progress.advance(task) calls
    available,   \* links accepted by the checker / scored by the speedtest
    clients,     \* pool on its own: ports each caller took and still holds
    history,     \* pool on its own: the take() results since the last return
    strict,      \* strict protocol on its own: configuration, loop, metrics
    stab,        \* stability protocol on its own: configuration, loop, rounds
    term,        \* one task's blocking points on their own: waits and loops
    speed,       \* speedtest scoring and ranking on their own
    out,         \* the checker's collector and result files on their own
    dedup,       \* the checker's input deduplication on its own
    entry,       \* the container entrypoint's pipeline on its own
    merge,       \* the entrypoint's final merge on its own
    filt,        \* the endpoint filter on its own
    geo          \* the comment rewriter's country lookups on their own

vars == << prog, max_workers, ports, free, pc, port, proc, file, waited,
           early, ret, why,
           spawns, probes, collected, all_metrics, writes, advanced,
           available, clients, history, strict, stab,
           term, speed, out, dedup, entry, merge, filt, geo >>

confVars == << prog, max_workers, ports >>
taskVars == << pc, port, proc, file, waited, early, ret, why, spawns, probes >>
schedVars == << collected, all_metrics, writes, advanced, available >>
poolTestVars == << clients, history >>
toolVars == << dedup, entry, merge, filt, geo >>
unitVars == << term, speed, out, toolVars >>
protoVars == << strict, stab, unitVars >>

\* ------------------------------------------------------------ port pool
\* take_port(): removes one free port and returns it, None when exhausted.
take_port_results(f) == IF f = {} THEN {NoPort} ELSE f

\* Mutation of take_port_free: the port handed out stays in the free set.
take_port_free_Keeps(f, p) == f

take_port_free(f, p) == IF p = NoPort THEN f ELSE f \ {p}

\* return_port(p): puts p back into the free set.
return_port(f, p) == f \cup {p}

\* --------------------------------------------- protocols not yet started
StrictIdle ==
    [STRONG_ATTEMPTS |-> 0, STRONG_MAX_RESPONSE_TIME |-> 0,
     MAX_RESPONSE_TIME |-> 0, attempt |-> 0, success_count |-> 0,
     response_times |-> << >>, total_requests |-> 0,
     successful_requests |-> 0, successful_urls |-> 0, failed_urls |-> 0,
     outcomes |-> << >>, result |-> "idle"]

StabIdle == [result |-> "idle"]

TermIdle == [phase |-> "idle"]

SpeedIdle == [phase |-> "idle"]

OutIdle == [phase |-> "idle"]

DedupIdle == [phase |-> "idle"]

EntryIdle == [pc |-> "idle"]

MergeIdle == [phase |-> "idle"]

FilterIdle == [phase |-> "idle"]

GeoIdle == [phase |-> "idle"]

UnitsIdle ==
    /\ term = TermIdle /\ speed = SpeedIdle /\ out = OutIdle
    /\ dedup = DedupIdle /\ entry = EntryIdle /\ merge = MergeIdle
    /\ filt = FilterIdle /\ geo = GeoIdle

\* ------------------------------------------------------------ the batch
Running == { t \in Tasks : pc[t] \notin {"queued", "done"} }

\* A process other threads can still see bound to its listener.
ProcAlive(t) == proc[t] \in {"running", "killed"}

Init ==
    /\ prog \in {"checker", "speedtest"}
    /\ max_workers \in 1..MaxWorkersBound
    /\ ports \in { 1..n : n \in 1..MaxPorts }
    /\ free = ports
    /\ pc = [t \in Tasks |-> "queued"]
    /\ port = [t \in Tasks |-> NoPort]
    /\ proc = [t \in Tasks |-> "none"]
    /\ file = [t \in Tasks |-> FALSE]
    /\ waited = [t \in Tasks |-> 0]
    /\ early = [t \in Tasks |-> FALSE]
    /\ ret = [t \in Tasks |-> "none"]
    /\ why = [t \in Tasks |-> "none"]
    /\ spawns = [t \in Tasks |-> 0]
    /\ probes = [t \in Tasks |-> 0]
    /\ collected = [t \in Tasks |-> FALSE]
    /\ all_metrics = [t \in Tasks |-> "unset"]
    /\ writes = [t \in Tasks |-> 0]
    /\ advanced = 0
    /\ available = {}
    /\ clients = [c \in 1..MaxClients |-> {}]
    /\ history = [base |-> ports, results |-> << >>, calls |-> 0]
    /\ strict = StrictIdle
    /\ stab = StabIdle
    /\ UnitsIdle

\* The task function returns or raises: the future resolves.
Finish(t, r, w) ==
    /\ pc' = [pc EXCEPT ![t] = "done"]
    /\ ret' = [ret EXCEPT ![t] = r]
    /\ why' = [why EXCEPT ![t] = w]
    /\ waited' = [waited EXCEPT ![t] = 0]
    /\ early' = [early EXCEPT ![t] = FALSE]

\* Control enters the finally block with the outcome r pending.
EnterFinally(t, r, w, e) ==
    /\ pc' = [pc EXCEPT ![t] = "fin_kill"]
    /\ ret' = [ret EXCEPT ![t] = r]
    /\ why' = [why EXCEPT ![t] = w]
    /\ waited' = [waited EXCEPT ![t] = 0]
    /\ early' = [early EXCEPT ![t] = e]

\* executor.submit: a worker thread picks the next queued candidate and runs
\* the task up to its first pool call (parse_proxy_url and the protocol test).
Start(t) ==
    /\ pc[t] = "queued"
    /\ \A u \in Tasks : u < t => pc[u] # "queued"
    /\ Cardinality(Running) < max_workers
    /\ \E valid \in BOOLEAN :
          IF valid
          THEN /\ pc' = [pc EXCEPT ![t] = "take"]
               /\ UNCHANGED << ret, why, waited, early >>
          ELSE Finish(t, "fail", "invalid")
    /\ UNCHANGED confVars
    /\ UNCHANGED << free, port, proc, file, spawns, probes >>
    /\ UNCHANGED schedVars
    /\ UNCHANGED poolTestVars
    /\ UNCHANGED protoVars

\* Mutation of TakePort: the "if port is None" test is missing.
TakePort_NoNoneTest(t) ==
    /\ pc[t] = "take"
    /\ \E p \in take_port_results(free) :
          /\ free' = take_port_free(free, p)
          /\ port' = [port EXCEPT ![t] = p]
    /\ pc' = [pc EXCEPT ![t] = "config"]
    /\ UNCHANGED << ret, why, waited, early >>
    /\ UNCHANGED confVars
    /\ UNCHANGED << proc, file, spawns, probes >>
    /\ UNCHANGED schedVars
    /\ UNCHANGED poolTestVars
    /\ UNCHANGED protoVars

\* port = take_port(); if port is None: return failed
TakePort(t) ==
    /\ pc[t] = "take"
    /\ \E p \in take_port_results(free) :
          /\ free' = take_port_free(free, p)
          /\ port' = [port EXCEPT ![t] = p]
          /\ IF p = NoPort
             THEN Finish(t, "fail", "exhausted")
             ELSE /\ pc' = [pc EXCEPT ![t] = "config"]
                  /\ UNCHANGED << ret, why, waited, early >>
    /\ UNCHANGED confVars
    /\ UNCHANGED << proc, file, spawns, probes >>
    /\ UNCHANGED schedVars
    /\ UNCHANGED poolTestVars
    /\ UNCHANGED protoVars

\* tempfile.mkstemp, then the config is written inside try/except Exception.
WriteConfig(t) ==
    /\ pc[t] = "config"
    /\ \E o \in {"written", "write_failed", "mkstemp_raised"} :
          CASE o = "written" ->
                  /\ file' = [file EXCEPT ![t] = TRUE]
                  /\ pc' = [pc EXCEPT ![t] = "spawn"]
                  /\ UNCHANGED << free, port, ret, why, waited, early >>
            [] o = "write_failed" ->
                  /\ file' = [file EXCEPT ![t] = TRUE]
                  /\ free' = return_port(free, port[t])
                  /\ port' = [port EXCEPT ![t] = NoPort]
                  /\ Finish(t, "fail", "write_failed")
            [] o = "mkstemp_raised" ->
                  /\ Finish(t, "raised", "mkstemp_raised")
                  /\ UNCHANGED << free, port, file >>
    /\ UNCHANGED confVars
    /\ UNCHANGED << proc, spawns, probes >>
    /\ UNCHANGED schedVars
    /\ UNCHANGED poolTestVars
    /\ UNCHANGED protoVars

\* Mutation of Spawn: the absent branch does not unlink the config.
Spawn_AbsentKeepsConfig(t) ==
    /\ pc[t] = "spawn"
    /\ spawns' = [spawns EXCEPT ![t] = @ + 1]
    /\ \E o \in {"started", "absent", "unrunnable"} :
          CASE o = "started" ->
                  /\ proc' = [proc EXCEPT ![t] = "running"]
                  /\ pc' = [pc EXCEPT ![t] = "startup"]
                  /\ UNCHANGED << free, port, file, ret, why, waited, early >>
            [] o = "absent" ->
                  /\ free' = return_port(free, port[t])
                  /\ port' = [port EXCEPT ![t] = NoPort]
                  /\ Finish(t, "fail", "absent")
                  /\ UNCHANGED << proc, file >>
            [] o = "unrunnable" ->
                  /\ Finish(t, "raised", "unrunnable")
                  /\ UNCHANGED << free, port, file, proc >>
    /\ UNCHANGED confVars
    /\ UNCHANGED << probes >>
    /\ UNCHANGED schedVars
    /\ UNCHANGED poolTestVars
    /\ UNCHANGED protoVars

\* proc = run_hysteria(config_path): Popen, FileNotFoundError -> None,
\* any other error of Popen propagates out of the task.
Spawn(t) ==
    /\ pc[t] = "spawn"
    /\ spawns' = [spawns EXCEPT ![t] = @ + 1]
    /\ \E o \in {"started", "absent", "unrunnable"} :
          CASE o = "started" ->
                  /\ proc' = [proc EXCEPT ![t] = "running"]
                  /\ pc' = [pc EXCEPT ![t] = "startup"]
                  /\ UNCHANGED << free, port, file, ret, why, waited, early >>
            [] o = "absent" ->
                  /\ free' = return_port(free, port[t])
                  /\ port' = [port EXCEPT ![t] = NoPort]
                  /\ file' = [file EXCEPT ![t] = FALSE]
                  /\ Finish(t, "fail", "absent")
                  /\ UNCHANGED proc
            [] o = "unrunnable" ->
                  /\ Finish(t, "raised", "unrunnable")
                  /\ UNCHANGED << free, port, file, proc >>
    /\ UNCHANGED confVars
    /\ UNCHANGED << probes >>
    /\ UNCHANGED schedVars
    /\ UNCHANGED poolTestVars
    /\ UNCHANGED protoVars

\* The client exits by itself (bad config, unreachable server, crash).
ProcExit(t) ==
    /\ proc[t] = "running"
    /\ proc' = [proc EXCEPT ![t] = "exited"]
    /\ UNCHANGED confVars
    /\ UNCHANGED << free, pc, port, file, waited, early, ret, why,
                    spawns, probes >>
    /\ UNCHANGED schedVars
    /\ UNCHANGED poolTestVars
    /\ UNCHANGED protoVars

\* A process that was sent SIGKILL disappears.
ProcReap(t) ==
    /\ proc[t] = "killed"
    /\ proc' = [proc EXCEPT ![t] = "exited"]
    /\ UNCHANGED confVars
    /\ UNCHANGED << free, pc, port, file, waited, early, ret, why,
                    spawns, probes >>
    /\ UNCHANGED schedVars
    /\ UNCHANGED poolTestVars
    /\ UNCHANGED protoVars

\* Mutation of StartupPoll: proc.poll() is not looked at.
StartupPoll_IgnoresExit(t) ==
    /\ pc[t] = "startup"
    /\ IF waited[t] < StartupPolls
       THEN IF FALSE
            THEN /\ free' = return_port(free, port[t])
                 /\ EnterFinally(t, "fail", "died", TRUE)
            ELSE /\ waited' = [waited EXCEPT ![t] = @ + 1]
                 /\ UNCHANGED << free, pc, ret, why, early >>
       ELSE /\ pc' = [pc EXCEPT ![t] = "portwait"]
            /\ waited' = [waited EXCEPT ![t] = 0]
            /\ UNCHANGED << free, ret, why, early >>
    /\ UNCHANGED confVars
    /\ UNCHANGED << port, proc, file, spawns, probes >>
    /\ UNCHANGED schedVars
    /\ UNCHANGED poolTestVars
    /\ UNCHANGED protoVars

\* One evaluation of the startup-wait loop: while waited < STARTUP_WAIT,
\* poll the process; a dead process returns the port and leaves the try.
StartupPoll(t) ==
    /\ pc[t] = "startup"
    /\ IF waited[t] < StartupPolls
       THEN IF proc[t] # "running"
            THEN /\ free' = return_port(free, port[t])
                 /\ EnterFinally(t, "fail", "died", TRUE)
            ELSE /\ waited' = [waited EXCEPT ![t] = @ + 1]
                 /\ UNCHANGED << free, pc, ret, why, early >>
       ELSE /\ pc' = [pc EXCEPT ![t] = "portwait"]
            /\ waited' = [waited EXCEPT ![t] = 0]
            /\ UNCHANGED << free, ret, why, early >>
    /\ UNCHANGED confVars
    /\ UNCHANGED << port, proc, file, spawns, probes >>
    /\ UNCHANGED schedVars
    /\ UNCHANGED poolTestVars
    /\ UNCHANGED protoVars

\* Some live client listens on the port the task connects to.
Listening(p) == \E u \in Tasks : port[u] = p /\ proc[u] = "running"

\* Mutation of PortWait: the result of _wait_for_port is not looked at.
PortWait_ProbesAnyway(t) ==
    /\ pc[t] = "portwait"
    /\ \E connected \in BOOLEAN :
          /\ connected => Listening(port[t])
          /\ IF TRUE
             THEN /\ pc' = [pc EXCEPT ![t] = "probe"]
                  /\ UNCHANGED << free, ret, why, waited, early >>
             ELSE IF prog = "checker"
                  THEN /\ free' = return_port(free, port[t])
                       /\ EnterFinally(t, "fail", "port_timeout", TRUE)
                  ELSE /\ EnterFinally(t, "fail", "port_timeout", FALSE)
                       /\ UNCHANGED free
    /\ UNCHANGED confVars
    /\ UNCHANGED << port, proc, file, spawns, probes >>
    /\ UNCHANGED schedVars
    /\ UNCHANGED poolTestVars
    /\ UNCHANGED protoVars

\* _wait_for_port("127.0.0.1", port, ...): the checker returns the port
\* before leaving the try, the speedtest leaves it to the finally block.
PortWait(t) ==
    /\ pc[t] = "portwait"
    /\ \E connected \in BOOLEAN :
          /\ connected => Listening(port[t])
          /\ IF connected
             THEN /\ pc' = [pc EXCEPT ![t] = "probe"]
                  /\ UNCHANGED << free, ret, why, waited, early >>
             ELSE IF prog = "checker"
                  THEN /\ free' = return_port(free, port[t])
                       /\ EnterFinally(t, "fail", "port_timeout", TRUE)
                  ELSE /\ EnterFinally(t, "fail", "port_timeout", FALSE)
                       /\ UNCHANGED free
    /\ UNCHANGED confVars
    /\ UNCHANGED << port, proc, file, spawns, probes >>
    /\ UNCHANGED schedVars
    /\ UNCHANGED poolTestVars
    /\ UNCHANGED protoVars

\* Mutation of Probe: a task that passed records itself in the batch's
\* result collection from inside the worker.
Probe_RecordsItself(t) ==
    /\ pc[t] = "probe"
    /\ probes' = [probes EXCEPT ![t] = @ + 1]
    /\ \E o \in {"pass", "rejected", "probe_raised"} :
          /\ EnterFinally(t, CASE o = "pass" -> "ok"
                               [] o = "rejected" -> "fail"
                               [] o = "probe_raised" -> "raised", o, FALSE)
          /\ available' = IF o = "pass" THEN available \cup {t}
                          ELSE available
    /\ UNCHANGED confVars
    /\ UNCHANGED << free, port, proc, file, spawns >>
    /\ UNCHANGED << collected, all_metrics, writes, advanced >>
    /\ UNCHANGED poolTestVars
    /\ UNCHANGED protoVars

\* The probing protocol as a whole: it passes, rejects, or an exception
\* escapes it; every way out goes through the finally block.
Probe(t) ==
    /\ pc[t] = "probe"
    /\ probes' = [probes EXCEPT ![t] = @ + 1]
    /\ \E o \in {"pass", "rejected", "probe_raised"} :
          EnterFinally(t, CASE o = "pass" -> "ok"
                            [] o = "rejected" -> "fail"
                            [] o = "probe_raised" -> "raised", o, FALSE)
    /\ UNCHANGED confVars
    /\ UNCHANGED << free, port, proc, file, spawns >>
    /\ UNCHANGED schedVars
    /\ UNCHANGED poolTestVars
    /\ UNCHANGED protoVars

\* kill_hysteria(proc): terminate, wait(timeout=5); on TimeoutExpired kill()
\* without a second wait.
kill_hysteria(st, graceful) ==
    IF st = "running"
    THEN IF graceful THEN "exited" ELSE "killed"
    ELSE st

FinKill(t) ==
    /\ pc[t] = "fin_kill"
    /\ \E graceful \in BOOLEAN :
          proc' = [proc EXCEPT ![t] = kill_hysteria(proc[t], graceful)]
    /\ pc' = [pc EXCEPT ![t] = "fin_unlink"]
    /\ UNCHANGED confVars
    /\ UNCHANGED << free, port, file, waited, early, ret, why,
                    spawns, probes >>
    /\ UNCHANGED schedVars
    /\ UNCHANGED poolTestVars
    /\ UNCHANGED protoVars

\* os.unlink(config_path), only FileNotFoundError is tolerated.
FinUnlink(t) ==
    /\ pc[t] = "fin_unlink"
    /\ \E o \in {"removed", "unlink_raised"} :
          IF o = "removed"
          THEN /\ file' = [file EXCEPT ![t] = FALSE]
               /\ pc' = [pc EXCEPT ![t] = "fin_return"]
               /\ UNCHANGED << port, ret, why, waited, early >>
          ELSE /\ Finish(t, "raised", "unlink_raised")
               /\ port' = [port EXCEPT ![t] = IF early[t] THEN NoPort ELSE @]
               /\ UNCHANGED file
    /\ UNCHANGED confVars
    /\ UNCHANGED << free, proc, spawns, probes >>
    /\ UNCHANGED schedVars
    /\ UNCHANGED poolTestVars
    /\ UNCHANGED protoVars

\* return_port(port) at the end of the finally block, then the pending
\* return or exception takes effect.
FinReturn(t) ==
    /\ pc[t] = "fin_return"
    /\ free' = return_port(free, port[t])
    /\ port' = [port EXCEPT ![t] = NoPort]
    /\ Finish(t, ret[t], why[t])
    /\ UNCHANGED confVars
    /\ UNCHANGED << proc, file, spawns, probes >>
    /\ UNCHANGED schedVars
    /\ UNCHANGED poolTestVars
    /\ UNCHANGED protoVars

\* ------------------------------------------------- collecting the futures
\* Mutation of CollectChecker: a raised future is swallowed without a
\* record, as the speedtest's "except Exception: pass" does.
CollectChecker_DropsRaised(t) ==
    IF ret[t] = "raised"
    THEN /\ advanced' = advanced + 1
         /\ UNCHANGED << all_metrics, writes, available >>
    ELSE /\ all_metrics' = [all_metrics EXCEPT ![t] = "metrics"]
         /\ writes' = [writes EXCEPT ![t] = @ + 1]
         /\ available' = IF ret[t] = "ok"
                         THEN available \cup {t} ELSE available
         /\ advanced' = advanced + 1

\* hysteria_checker.main, body of "for future in as_completed(futures)".
CollectChecker(t) ==
    IF ret[t] = "raised"
    THEN /\ all_metrics' = [all_metrics EXCEPT ![t] = "empty"]
         /\ writes' = [writes EXCEPT ![t] = @ + 1]
         /\ advanced' = advanced + 1
         /\ UNCHANGED available
    ELSE /\ all_metrics' = [all_metrics EXCEPT ![t] = "metrics"]
         /\ writes' = [writes EXCEPT ![t] = @ + 1]
         /\ \E within \in BOOLEAN :
               available' = IF ret[t] = "ok" /\ within
                            THEN available \cup {t} ELSE available
         /\ advanced' = advanced + 1

\* speedtest_hysteria.main: advance first, keep the pair if there is one.
CollectSpeedtest(t) ==
    /\ advanced' = advanced + 1
    /\ available' = IF ret[t] = "ok" THEN available \cup {t} ELSE available
    /\ UNCHANGED << all_metrics, writes >>

Collect(t) ==
    /\ pc[t] = "done"
    /\ ~collected[t]
    /\ collected' = [collected EXCEPT ![t] = TRUE]
    /\ IF prog = "checker" THEN CollectChecker(t) ELSE CollectSpeedtest(t)
    /\ UNCHANGED confVars
    /\ UNCHANGED << free >>
    /\ UNCHANGED taskVars
    /\ UNCHANGED poolTestVars
    /\ UNCHANGED protoVars

Next ==
    \E t \in Tasks :
        \/ Start(t)
        \/ TakePort(t)
        \/ WriteConfig(t)
        \/ Spawn(t)
        \/ ProcExit(t)
        \/ ProcReap(t)
        \/ StartupPoll(t)
        \/ PortWait(t)
        \/ Probe(t)
        \/ FinKill(t)
        \/ FinUnlink(t)
        \/ FinReturn(t)
        \/ Collect(t)

Spec == Init /\ [][Next]_vars

AllDone == \A t \in Tasks : pc[t] = "done"
BatchEnded == \A t \in Tasks : pc[t] = "done" /\ collected[t]

\* ------------------------------------------------ the pool on its own
\* Callers that use nothing but take_port / return_port, in any order.
PoolTake(c) ==
    /\ history.calls < MaxCalls
    /\ \E p \in take_port_results(free) :
          /\ free' = take_port_free(free, p)
          /\ clients' = [clients EXCEPT ![c] = IF p = NoPort THEN @
                                               ELSE @ \cup {p}]
          /\ history' = [history EXCEPT !.results = Append(@, p),
                                        !.calls = @ + 1]
    /\ UNCHANGED confVars
    /\ UNCHANGED taskVars
    /\ UNCHANGED schedVars
    /\ UNCHANGED protoVars

\* A caller returns a port it holds, or one that is free already.
PoolReturn(c) ==
    /\ history.calls < MaxCalls
    /\ \E p \in clients[c] \cup free :
          /\ free' = return_port(free, p)
          /\ clients' = [clients EXCEPT ![c] = @ \ {p}]
          /\ history' = [base |-> free', results |-> << >>,
                         calls |-> history.calls + 1]
    /\ UNCHANGED confVars
    /\ UNCHANGED taskVars
    /\ UNCHANGED schedVars
    /\ UNCHANGED protoVars

PoolNext == \E c \in 1..MaxClients : PoolTake(c) \/ PoolReturn(c)

PoolSpec == Init /\ [][PoolNext]_vars

\* ------------------------------------------- the strict protocol alone
\* The STRONG_STYLE_TEST branch of check_hysteria_key (lines 260-285), run by
\* one task whose client is ready; the other variables keep the values of a
\* batch that has not started.
IdleBatch ==
    /\ prog = "checker"
    /\ max_workers = 1
    /\ ports = 1..1
    /\ free = ports
    /\ pc = [t \in Tasks |-> "queued"]
    /\ port = [t \in Tasks |-> NoPort]
    /\ proc = [t \in Tasks |-> "none"]
    /\ file = [t \in Tasks |-> FALSE]
    /\ waited = [t \in Tasks |-> 0]
    /\ early = [t \in Tasks |-> FALSE]
    /\ ret = [t \in Tasks |-> "none"]
    /\ why = [t \in Tasks |-> "none"]
    /\ spawns = [t \in Tasks |-> 0]
    /\ probes = [t \in Tasks |-> 0]
    /\ collected = [t \in Tasks |-> FALSE]
    /\ all_metrics = [t \in Tasks |-> "unset"]
    /\ writes = [t \in Tasks |-> 0]
    /\ advanced = 0
    /\ available = {}
    /\ clients = [c \in 1..MaxClients |-> {}]
    /\ history = [base |-> ports, results |-> << >>, calls |-> 0]

batchVars == << prog, max_workers, ports, free, pc, port, proc, file, waited,
                early, ret, why, spawns, probes, collected, all_metrics,
                writes, advanced, available, clients, history >>

\* What make_request returns, with the verdict of check_response_valid
\* (which is only asked when there is a response and no error). Elapsed
\* times are whole units; a request without a usable answer takes the
\* longest.
RequestOutcomes ==
    { o \in [response : BOOLEAN, error : BOOLEAN, valid : BOOLEAN,
             elapsed : 1..MaxElapsed] :
        /\ o.valid => (o.response /\ ~o.error)
        /\ ~o.valid => o.elapsed = MaxElapsed }

\* max_ok_time = STRONG_MAX_RESPONSE_TIME if it is > 0 else MAX_RESPONSE_TIME
max_ok_time(c) ==
    IF c.STRONG_MAX_RESPONSE_TIME > 0 THEN c.STRONG_MAX_RESPONSE_TIME
    ELSE c.MAX_RESPONSE_TIME

\* attempts_total = max(2, STRONG_ATTEMPTS)
attempts_total(c) == IF c.STRONG_ATTEMPTS > 2 THEN c.STRONG_ATTEMPTS ELSE 2

min_success == 2

\* Mutation of AttemptCounts: the response-time limit is not applied.
AttemptCounts_NoTimeLimit(o, mot) == o.response /\ ~o.error /\ o.valid

\* Lines 275-277: the attempt is counted unless the response is missing,
\* an error came with it, it is not valid, or it was slower than a positive
\* max_ok_time.
AttemptCounts(o, mot) ==
    /\ o.response /\ ~o.error /\ o.valid
    /\ ~(mot > 0 /\ o.elapsed > mot)

\* Mutation of RecordSample: the newest sample is put first.
RecordSample_Prepends(rt, e) == << e >> \o rt

\* metrics["response_times"].append(elapsed_time)
RecordSample(rt, e) == Append(rt, e)

\* Mutation of StrictVerdict: one failure is tolerated, whatever the total.
StrictVerdict_Relative(sc, total) == sc >= total - 1

\* if success_count >= min_success: return (link, True, metrics)
StrictVerdict(sc, total) == sc >= min_success

StrictInit ==
    /\ IdleBatch
    /\ stab = StabIdle
    /\ UnitsIdle
    /\ \E sa \in 1..MaxStrongAttempts :
       \E smax \in 0..MaxTimeLimit :
       \E mrt \in 0..MaxTimeLimit :
          strict = [StrictIdle EXCEPT !.STRONG_ATTEMPTS = sa,
                                      !.STRONG_MAX_RESPONSE_TIME = smax,
                                      !.MAX_RESPONSE_TIME = mrt,
                                      !.result = "probing"]

\* Mutation of StrictAttempt: the loop is left as soon as two attempts
\* have been counted.
StrictAttempt_StopsAtTwo ==
    /\ strict.result = "probing"
    /\ strict.attempt < attempts_total(strict)
    /\ IF strict.success_count >= min_success
       THEN strict' = [strict EXCEPT
                          !.successful_requests = strict.success_count,
                          !.successful_urls = 1,
                          !.failed_urls = 0,
                          !.result = "pass"]
       ELSE \E o \in RequestOutcomes :
          LET counted == AttemptCounts(o, max_ok_time(strict))
          IN  strict' = [strict EXCEPT
                 !.attempt = @ + 1,
                 !.total_requests = @ + 1,
                 !.outcomes = Append(@, o),
                 !.response_times = IF counted
                                    THEN RecordSample(@, o.elapsed) ELSE @,
                 !.success_count = IF counted THEN @ + 1 ELSE @]
    /\ UNCHANGED batchVars
    /\ UNCHANGED stab
    /\ UNCHANGED unitVars

\* One iteration of "for attempt in range(attempts_total)".
StrictAttempt ==
    /\ strict.result = "probing"
    /\ strict.attempt < attempts_total(strict)
    /\ \E o \in RequestOutcomes :
          LET counted == AttemptCounts(o, max_ok_time(strict))
          IN  strict' = [strict EXCEPT
                 !.attempt = @ + 1,
                 !.total_requests = @ + 1,
                 !.outcomes = Append(@, o),
                 !.response_times = IF counted
                                    THEN RecordSample(@, o.elapsed) ELSE @,
                 !.success_count = IF counted THEN @ + 1 ELSE @]
    /\ UNCHANGED batchVars
    /\ UNCHANGED stab
    /\ UNCHANGED unitVars

\* After the loop: the verdict and the metrics written on a pass.
StrictFinish ==
    /\ strict.result = "probing"
    /\ strict.attempt >= attempts_total(strict)
    /\ strict' =
          IF StrictVerdict(strict.success_count, attempts_total(strict))
          THEN [strict EXCEPT !.successful_requests = strict.success_count,
                              !.successful_urls = 1,
                              !.failed_urls = 0,
                              !.result = "pass"]
          ELSE [strict EXCEPT !.result = "fail"]
    /\ UNCHANGED batchVars
    /\ UNCHANGED stab
    /\ UNCHANGED unitVars

StrictNext == StrictAttempt \/ StrictFinish

StrictSpec == StrictInit /\ [][StrictNext]_vars

\* ---------------------------------------- the stability protocol alone
\* The branch of check_hysteria_key without STRONG_STYLE_TEST (lines
\* 287-337), run by one task whose client is ready.

\* all_urls: the TEST_URLS as http, then the TEST_URLS_HTTPS as https; the
\* single https client test URL when both lists are empty.
AllUrls(nHttp, nHttps) ==
    IF nHttp + nHttps = 0 THEN << "https" >>
    ELSE [i \in 1..(nHttp + nHttps) |->
             IF i <= nHttp THEN "http" ELSE "https"]

\* any(t == "https" for _, t in all_urls)
AnyHttps(urls) == \E i \in 1..Len(urls) : urls[i] = "https"

\* all(stability_results)
All(results) == \A i \in 1..Len(results) : results[i]

\* Mutation of UrlSuccessful: the threshold has to be exceeded.
UrlSuccessful_Exceeds(request_ok, c) ==
    request_ok > c.MIN_SUCCESSFUL_REQUESTS

\* if request_ok >= MIN_SUCCESSFUL_REQUESTS: successful_urls_count += 1
UrlSuccessful(request_ok, c) == request_ok >= c.MIN_SUCCESSFUL_REQUESTS

\* successful_urls_count == len(all_urls) if (STRICT_MODE and
\* STRICT_MODE_REQUIRE_ALL) else successful_urls_count >= MIN_SUCCESSFUL_URLS
UrlThreshold(cnt, c) ==
    IF c.STRICT_MODE /\ c.STRICT_MODE_REQUIRE_ALL
    THEN cnt = Len(c.all_urls)
    ELSE cnt >= c.MIN_SUCCESSFUL_URLS

\* Lines 316-322: the verdict of one round.
RoundPassed(cnt, c) ==
    IF c.REQUIRE_HTTPS /\ ~AnyHttps(c.all_urls) THEN FALSE
    ELSE UrlThreshold(cnt, c)

\* Lines 325-337: the verdict of the candidate, cnt being the
\* successful_urls_count the last round left.
StabVerdict(c, results, cnt) ==
    IF c.STABILITY_CHECKS > 1 /\ ~All(results) THEN FALSE
    ELSE IF c.REQUIRE_HTTPS /\ c.all_urls = << >> THEN FALSE
    ELSE UrlThreshold(cnt, c)

StabInit ==
    /\ IdleBatch
    /\ strict = StrictIdle
    /\ UnitsIdle
    /\ \E rounds \in 1..MaxRounds :
       \E nHttp \in 0..MaxUrls :
       \E nHttps \in 0..(MaxUrls - nHttp) :
       \E rpu \in 1..MaxRequests :
       \E minReq \in 1..MaxRequests :
       \E minUrls \in 1..MaxUrls :
       \E sm \in BOOLEAN : \E all \in BOOLEAN : \E https \in BOOLEAN :
          stab = [STABILITY_CHECKS |-> rounds,
                  all_urls |-> AllUrls(nHttp, nHttps),
                  REQUESTS_PER_URL |-> rpu,
                  MIN_SUCCESSFUL_REQUESTS |-> minReq,
                  MIN_SUCCESSFUL_URLS |-> minUrls,
                  STRICT_MODE |-> sm,
                  STRICT_MODE_REQUIRE_ALL |-> all,
                  REQUIRE_HTTPS |-> https,
                  stability_check |-> 0,
                  url |-> 0,
                  successful_urls_count |-> 0,
                  stability_results |-> << >>,
                  request_ok |-> << >>,
                  result |-> "probing"]

\* One iteration of "for url, _ in all_urls": REQUESTS_PER_URL requests, of
\* which request_ok are counted; the first URL of a round starts from
\* successful_urls_count = 0.
StabUrl ==
    /\ stab.result = "probing"
    /\ stab.stability_check < stab.STABILITY_CHECKS
    /\ stab.url < Len(stab.all_urls)
    /\ \E ok \in 0..stab.REQUESTS_PER_URL :
          LET before == IF stab.url = 0 THEN 0
                        ELSE stab.successful_urls_count
              row == IF stab.url = 0 THEN << >>
                     ELSE stab.request_ok[Len(stab.request_ok)]
              rows == IF stab.url = 0 THEN stab.request_ok
                      ELSE SubSeq(stab.request_ok, 1,
                                  Len(stab.request_ok) - 1)
          IN  stab' = [stab EXCEPT
                 !.url = @ + 1,
                 !.successful_urls_count =
                     IF UrlSuccessful(ok, stab) THEN before + 1 ELSE before,
                 !.request_ok = Append(rows, Append(row, ok))]
    /\ UNCHANGED batchVars
    /\ UNCHANGED strict
    /\ UNCHANGED unitVars

\* The end of one round: passed is computed and appended.
StabRoundEnd ==
    /\ stab.result = "probing"
    /\ stab.stability_check < stab.STABILITY_CHECKS
    /\ stab.url = Len(stab.all_urls)
    /\ stab' = [stab EXCEPT
          !.stability_check = @ + 1,
          !.url = 0,
          !.stability_results =
              Append(@, RoundPassed(stab.successful_urls_count, stab))]
    /\ UNCHANGED batchVars
    /\ UNCHANGED strict
    /\ UNCHANGED unitVars

\* After the rounds: the candidate's verdict.
StabFinish ==
    /\ stab.result = "probing"
    /\ stab.stability_check = stab.STABILITY_CHECKS
    /\ stab' = [stab EXCEPT !.result =
          IF StabVerdict(stab, stab.stability_results,
                         stab.successful_urls_count)
          THEN "pass" ELSE "fail"]
    /\ UNCHANGED batchVars
    /\ UNCHANGED strict
    /\ UNCHANGED unitVars

StabNext == StabUrl \/ StabRoundEnd \/ StabFinish

StabSpec == StabInit /\ [][StabNext]_vars

\* --------------------------------- one task's blocking points on their own
\* Everything check_hysteria_key waits for once the client is spawned
\* (lines 240-345): the startup loop, _wait_for_port, the probe requests and
\* the finally block. Times are whole units; HYSTERIA_STARTUP_WAIT,
\* HYSTERIA_STARTUP_POLL and HYSTERIA_PORT_WAIT are whatever float() made of
\* the environment (lines 119-121), a negative or zero interval included.
OthersIdle(v) ==
    /\ v = "term" \/ term = TermIdle
    /\ v = "speed" \/ speed = SpeedIdle
    /\ v = "out" \/ out = OutIdle
    /\ v = "dedup" \/ dedup = DedupIdle
    /\ v = "entry" \/ entry = EntryIdle
    /\ v = "merge" \/ merge = MergeIdle
    /\ v = "filt" \/ filt = FilterIdle
    /\ v = "geo" \/ geo = GeoIdle

TermInit ==
    /\ IdleBatch
    /\ strict = StrictIdle
    /\ stab = StabIdle
    /\ OthersIdle("term")
    /\ \E w \in 0..MaxStartupWait :
       \E p \in (-1)..MaxStartupPoll :
       \E pw \in 0..MaxPortWait :
       \E n \in 1..MaxProbeRequests :
          term = [STARTUP_WAIT |-> w, STARTUP_POLL |-> p, PORT_WAIT |-> pw,
                  requests |-> n, phase |-> "startup", waited |-> 0, lap |-> 0,
                  clock |-> 0, request |-> 0, proc |-> "running",
                  result |-> "none"]

\* One evaluation of "while waited < HYSTERIA_STARTUP_WAIT" and its body:
\* proc.poll(), time.sleep(HYSTERIA_STARTUP_POLL) (ValueError when negative),
\* waited += HYSTERIA_STARTUP_POLL. lap is the parity of the laps done: a
\* lap is a step of the thread even when it leaves waited as it was.
TermStartupPoll ==
    /\ term.phase = "startup"
    /\ term' =
          IF term.waited < term.STARTUP_WAIT
          THEN IF term.proc # "running"
               THEN [term EXCEPT !.phase = "teardown", !.result = "fail"]
               ELSE IF term.STARTUP_POLL < 0
               THEN [term EXCEPT !.phase = "teardown", !.result = "raised"]
               ELSE [term EXCEPT !.waited = @ + term.STARTUP_POLL,
                                 !.lap = 1 - @]
          ELSE [term EXCEPT !.phase = "portwait"]
    /\ UNCHANGED batchVars
    /\ UNCHANGED << strict, stab, speed, out, toolVars >>

\* One evaluation of "while time.perf_counter() < deadline" in
\* _wait_for_port: a connection attempt, then a sleep of the fixed
\* poll_interval; the clock moves on with every lap.
TermPortPoll ==
    /\ term.phase = "portwait"
    /\ \E connected \in BOOLEAN :
          /\ connected => term.proc = "running"
          /\ term' =
                IF term.clock < term.PORT_WAIT
                THEN IF connected
                     THEN [term EXCEPT !.phase = "probing"]
                     ELSE [term EXCEPT !.clock = @ + 1]
                ELSE [term EXCEPT !.phase = "teardown", !.result = "fail"]
    /\ UNCHANGED batchVars
    /\ UNCHANGED << strict, stab, speed, out, toolVars >>

\* One request of the probing protocol (a "for ... in range(...)" loop in
\* either protocol, each request under its own timeout), or the verdict
\* after the last one.
TermProbe ==
    /\ term.phase = "probing"
    /\ \E r \in {"ok", "fail", "raised"} :
          term' =
             IF term.request < term.requests /\ r # "raised"
             THEN [term EXCEPT !.request = @ + 1]
             ELSE [term EXCEPT !.phase = "teardown", !.result = r]
    /\ UNCHANGED batchVars
    /\ UNCHANGED << strict, stab, speed, out, toolVars >>

\* The finally block: kill_hysteria (terminate, wait of at most 5 s, kill),
\* os.unlink, return_port; then the future resolves.
TermTeardown ==
    /\ term.phase = "teardown"
    /\ \E graceful \in BOOLEAN : \E unlinked \in BOOLEAN :
          term' = [term EXCEPT
             !.proc = kill_hysteria(@, graceful),
             !.result = IF unlinked THEN @ ELSE "raised",
             !.phase = "resolved"]
    /\ UNCHANGED batchVars
    /\ UNCHANGED << strict, stab, speed, out, toolVars >>

\* The client exits by itself at any time before the teardown.
TermClientExit ==
    /\ term.phase \in {"startup", "portwait", "probing"}
    /\ term.proc = "running"
    /\ term' = [term EXCEPT !.proc = "exited"]
    /\ UNCHANGED batchVars
    /\ UNCHANGED << strict, stab, speed, out, toolVars >>

\* The steps of the worker thread, which keeps running.
TermStep == TermStartupPoll \/ TermPortPoll \/ TermProbe \/ TermTeardown

TermNext == TermStep \/ TermClientExit

TermSpec == TermInit /\ [][TermNext]_vars /\ WF_vars(TermStep)

\* ------------------------------------------------ scores and their order
\* A float the program computes by one division is kept as the pair
\* << numerator, denominator >>, the denominator positive.
RatLess(a, b) == a[1] * b[2] < b[1] * a[2]

RatLeq(a, b) == a[1] * b[2] <= b[1] * a[2]

RECURSIVE sum(_)
sum(s) == IF s = << >> THEN 0 ELSE Head(s) + sum(Tail(s))

\* list.sort / sorted are stable, also with reverse: an item goes behind
\* the items that sort strictly before it and behind the earlier items of
\* equal key. rank is the place it gets.
rank(s, i, reverse) ==
    1 + Cardinality({ j \in 1..Len(s) :
                        \/ IF reverse THEN RatLess(s[i].score, s[j].score)
                           ELSE RatLess(s[j].score, s[i].score)
                        \/ /\ j < i
                           /\ ~RatLess(s[i].score, s[j].score)
                           /\ ~RatLess(s[j].score, s[i].score) })

sorted(s, reverse) ==
    LET place == [i \in 1..Len(s) |-> rank(s, i, reverse)]
    IN  [p \in 1..Len(s) |-> s[CHOOSE i \in 1..Len(s) : place[i] = p]]

\* [item[0] for item in ...]
lines_of(s) == [i \in 1..Len(s) |-> s[i].line]

\* ---------------------------- the checker's collector and result files
\* hysteria_checker.main from the as_completed loop to the end (lines
\* 386-459), fed with the results of the futures. A small batch gets every
\* result in every order; a batch larger than the top-N limit is collected
\* in submission order with every candidate passed and response times
\* cycling through the values.
TopN == 100

\* The response times a result carries. main reads them only through sum
\* and len, so one order of each collection of samples stands for all.
SampleSeqs ==
    UNION { { rt \in [1..n -> 1..MaxElapsed] :
                \A i \in 1..(n - 1) : rt[i] <= rt[i + 1] } :
            n \in 0..MaxSamples }

FutureResults(total, l) ==
    IF total <= MaxLinks
    THEN { [state |-> "raised", ok |-> FALSE, response_times |-> << >>],
           [state |-> "returned", ok |-> FALSE, response_times |-> << >>] }
         \cup { [state |-> "returned", ok |-> TRUE, response_times |-> rt] :
                   rt \in SampleSeqs }
    ELSE { [state |-> "returned", ok |-> TRUE,
            response_times |-> << 1 + (l % MaxElapsed) >>] }

Pending == [state |-> "pending", ok |-> FALSE, response_times |-> << >>]

NoFile == [exists |-> FALSE, lines |-> << >>]

FileOf(lines) == [exists |-> TRUE, lines |-> lines]

\* Mutation of latency_ms: the mean is left in seconds.
latency_ms_Seconds(response_times) ==
    IF response_times = << >> THEN << 0, 1 >>
    ELSE << sum(response_times), Len(response_times) >>

\* latency_ms of lines 411-413
latency_ms(response_times) ==
    IF response_times = << >> THEN << 0, 1 >>
    ELSE << sum(response_times) * 1000, Len(response_times) >>

\* Mutation of available_sorted: the list is written as collected.
available_sorted_AsCollected(available_) == available_

\* available_sorted = sorted(available, key=lambda x: x[1])
available_sorted(available_) == sorted(available_, FALSE)

\* top100_lines = lines_out[:100]
top100_lines(lines_out) ==
    SubSeq(lines_out, 1, IF Len(lines_out) < TopN THEN Len(lines_out)
                         ELSE TopN)

OutInit ==
    /\ IdleBatch
    /\ strict = StrictIdle
    /\ stab = StabIdle
    /\ OthersIdle("out")
    /\ \E total \in (0..MaxLinks) \cup ((TopN + 1)..(TopN + MaxOver)) :
       \E limit \in 0..MaxElapsed :
       \E prior \in {NoFile, FileOf(<< 1 >>)} :
          out = [MAX_LATENCY_MS |-> 1000 * limit,
                 total |-> total,
                 futures |-> [l \in 1..total |-> Pending],
                 available |-> << >>,
                 available_links |-> {},
                 all_metrics |-> {},
                 completed |-> 0,
                 description |-> [totals |-> FALSE, ok |-> 0, fail |-> 0],
                 output |-> prior,
                 top100 |-> prior,
                 results_for_metrics |-> << >>,
                 phase |-> "collecting"]

\* The body of "for future in as_completed(futures)" for the future of
\* link l: the try branch records the metrics, accepts the candidate,
\* advances the bar and rewrites the description; the except branch records
\* empty metrics and advances the bar.
OutCollect(l) ==
    /\ out.phase = "collecting"
    /\ out.futures[l] = Pending
    /\ out.total > MaxLinks =>
          \A k \in 1..(l - 1) : out.futures[k] # Pending
    /\ \E r \in FutureResults(out.total, l) :
          LET keys == out.all_metrics \cup {l}
              accepted ==
                 /\ r.state = "returned"
                 /\ r.ok
                 /\ RatLeq(latency_ms(r.response_times),
                           << out.MAX_LATENCY_MS, 1 >>)
              avail == IF accepted
                       THEN Append(out.available,
                               [line |-> l,
                                score |-> latency_ms(r.response_times)])
                       ELSE out.available
          IN  out' = [out EXCEPT
                 !.futures[l] = r,
                 !.all_metrics = keys,
                 !.available = avail,
                 !.available_links = IF accepted THEN @ \cup {l} ELSE @,
                 !.completed = @ + 1,
                 !.description =
                     IF r.state = "raised" THEN @
                     ELSE [totals |-> TRUE, ok |-> Len(avail),
                           fail |-> Cardinality(keys) - Len(avail)]]
    /\ UNCHANGED batchVars
    /\ UNCHANGED << strict, stab, term, speed, toolVars >>

\* After the executor: every link of all_metrics gets its "available" flag
\* in results_for_metrics; the list is sorted and, unless it is empty, written
\* to the result file and its first TopN lines to the top100 file.
OutWrite ==
    /\ out.phase = "collecting"
    /\ \A l \in 1..out.total : out.futures[l] # Pending
    /\ LET lines_out == lines_of(available_sorted(out.available))
           flags == [l \in 1..out.total |-> l \in out.available_links]
       IN  out' = IF lines_out # << >>
                  THEN [out EXCEPT !.results_for_metrics = flags,
                                   !.output = FileOf(lines_out),
                                   !.top100 =
                                       FileOf(top100_lines(lines_out)),
                                   !.phase = "written"]
                  ELSE [out EXCEPT !.results_for_metrics = flags,
                                   !.phase = "written"]
    /\ UNCHANGED batchVars
    /\ UNCHANGED << strict, stab, term, speed, toolVars >>

OutNext == OutWrite \/ \E l \in 1..out.total : OutCollect(l)

OutSpec == OutInit /\ [][OutNext]_vars

\* ------------------------------------- speedtest scoring and ranking alone
\* speed_test_hysteria_key from the point where the client is ready (lines
\* 165-198) and the end of speedtest_hysteria.main (lines 282-297), for the
\* lines of one input file taken one after the other. Probe times are whole
\* units and become milliseconds by * 1000; a download's elapsed time is in
\* tenths of a second and its size in units of 125 kB, so that its speed in
\* Mbps is 10 * downloaded / elapsed.
DownloadFloor == 3

NoDownload ==
    [ran |-> FALSE, error |-> "none", status200 |-> FALSE, downloaded |-> 0,
     elapsed |-> 0]

\* What requests.get and the streaming of the body come to: a status other
\* than 200 is returned before any byte is read, an exception ends the
\* call whatever was read.
DownloadOutcomes ==
    { d \in [ran : {TRUE}, error : {"none", "request", "other"},
             status200 : BOOLEAN, downloaded : 0..MaxDownloaded,
             elapsed : 1..MaxDownloadTime] :
        /\ ~d.status200 => (d.downloaded = 0 /\ d.error = "none")
        /\ d.error # "none" => d.downloaded = 0 }

NoReturn == [state |-> "running", score |-> << 0, 1 >>, kind |-> "none"]

ReturnNone == [state |-> "none", score |-> << 0, 1 >>, kind |-> "none"]

Raised == [state |-> "raised", score |-> << 0, 1 >>, kind |-> "none"]

ReturnPair(score, kind) == [state |-> "pair", score |-> score, kind |-> kind]

\* The candidate of line l when its client has become ready.
Candidate(l) ==
    [line |-> l, state |-> "probing", i |-> 0, clock |-> 0,
     response_times |-> << >>, log |-> << >>, dl |-> NoDownload,
     ret |-> NoReturn]

\* round(x, 2) of x = n / d as a number of hundredths, ties to even.
round2(n, d) ==
    LET q == (100 * n) \div d
        r == (100 * n) % d
    IN  IF 2 * r > d \/ (2 * r = d /\ q % 2 = 1) THEN q + 1 ELSE q

\* Mutation of _test_download_speed: no anti-noise floor.
_test_download_speed_NoFloor(d) ==
    IF d.error = "other" THEN Raised
    ELSE IF d.error = "request" \/ ~d.status200 THEN ReturnNone
    ELSE ReturnPair(<< round2(10 * d.downloaded, d.elapsed), 100 >>, "speed")

\* _test_download_speed and the test of its result (lines 184-187 and
\* 189-192): None for a status other than 200, a RequestException or an
\* elapsed time under 0.3 s; any other exception leaves the task.
_test_download_speed(d) ==
    IF d.error = "other" THEN Raised
    ELSE IF d.error = "request" \/ ~d.status200 THEN ReturnNone
    ELSE IF d.elapsed < DownloadFloor THEN ReturnNone
    ELSE ReturnPair(<< round2(10 * d.downloaded, d.elapsed), 100 >>, "speed")

\* Mutation of probe_counts: any response is counted.
probe_counts_AnyResponse(o) == o.response

\* if resp and not err and check_response_valid(resp, 0, test_url)
probe_counts(o) == o.response /\ ~o.error /\ o.valid

\* Lines 194-198: the score made of the average latency. The samples are
\* whole multiples of 1000, and 100000 / (sum / n) is kept in lowest terms
\* of the thousand: 100 * n / (sum / 1000).
latency_score(c, response_times) ==
    IF c.mode = "latency" \/ ~(c.download_url_small \/ c.download_url_medium)
    THEN IF c.metric = "throughput"
         THEN ReturnPair(<< 100 * Len(response_times),
                            sum(response_times) \div 1000 >>, "throughput")
         ELSE ReturnPair(<< sum(response_times), Len(response_times) >>,
                         "latency")
    ELSE ReturnPair(<< sum(response_times), Len(response_times) >>,
                    "latency")

\* sort_by_speed of line 296
sort_by_speed(c) == c.mode \in {"quick", "full"} \/ c.metric = "throughput"

SpeedInit ==
    /\ IdleBatch
    /\ strict = StrictIdle
    /\ stab = StabIdle
    /\ OthersIdle("speed")
    /\ \E mode \in {"latency", "quick", "full"} :
       \E metric \in {"latency", "throughput"} :
       \E small \in BOOLEAN : \E medium \in BOOLEAN :
       \E n \in 1..MaxLines :
       \E rc \in 1..MaxSpeedRequests :
       \E to \in 1..MaxSpeedTimeout :
          speed = [mode |-> mode, metric |-> metric,
                   download_url_small |-> small,
                   download_url_medium |-> medium,
                   lines |-> n, requests_count |-> rc, timeout |-> to,
                   cur |-> Candidate(1),
                   results |-> << >>, bad_downloads |-> {},
                   ranked |-> << >>, phase |-> "testing"]

\* One iteration of "for _ in range(requests_count)" that gets past the
\* deadline test: one request, its time, its sample if it counts.
SpeedProbe ==
    /\ speed.phase = "testing"
    /\ speed.cur.state = "probing"
    /\ speed.cur.i < speed.requests_count
    /\ speed.cur.clock < speed.timeout
    /\ \E o \in RequestOutcomes :
          speed' = [speed EXCEPT
             !.cur.i = @ + 1,
             !.cur.clock = @ + o.elapsed,
             !.cur.log = Append(@, [ok |-> o.response /\ ~o.error /\ o.valid,
                                    elapsed |-> o.elapsed,
                                    started |-> speed.cur.clock]),
             !.cur.response_times =
                 IF probe_counts(o) THEN Append(@, o.elapsed * 1000) ELSE @]
    /\ UNCHANGED batchVars
    /\ UNCHANGED << strict, stab, term, out, toolVars >>

\* The loop has ended or was broken off at the deadline: lines 178-198
\* up to the download.
SpeedScore ==
    /\ speed.phase = "testing"
    /\ speed.cur.state = "probing"
    /\ speed.cur.i = speed.requests_count
          \/ speed.cur.clock >= speed.timeout
    /\ speed' =
          IF speed.cur.response_times = << >>
          THEN [speed EXCEPT !.cur.state = "returned",
                             !.cur.ret = ReturnNone]
          ELSE IF \/ speed.mode = "quick" /\ speed.download_url_small
                  \/ speed.mode = "full" /\ speed.download_url_medium
          THEN [speed EXCEPT !.cur.state = "download"]
          ELSE [speed EXCEPT
                   !.cur.state = "returned",
                   !.cur.ret = latency_score(speed,
                                             speed.cur.response_times)]
    /\ UNCHANGED batchVars
    /\ UNCHANGED << strict, stab, term, out, toolVars >>

\* The download of quick or full mode and the return that follows it.
SpeedDownload ==
    /\ speed.phase = "testing"
    /\ speed.cur.state = "download"
    /\ \E d \in DownloadOutcomes :
          speed' = [speed EXCEPT
             !.cur.state = "returned",
             !.cur.dl = d,
             !.cur.ret = _test_download_speed(d),
             !.bad_downloads =
                 IF \/ d.error # "none" \/ ~d.status200
                    \/ d.elapsed < DownloadFloor
                 THEN @ \cup {speed.cur.line} ELSE @]
    /\ UNCHANGED batchVars
    /\ UNCHANGED << strict, stab, term, out, toolVars >>

\* The body of "for future in as_completed(futures)" in the speedtest: the
\* pair is appended if there is one; then the next line's task.
SpeedCollect ==
    /\ speed.phase = "testing"
    /\ speed.cur.state = "returned"
    /\ speed' = [speed EXCEPT
          !.results = IF speed.cur.ret.state = "pair"
                      THEN Append(@, [line |-> speed.cur.line,
                                      score |-> speed.cur.ret.score,
                                      kind |-> speed.cur.ret.kind])
                      ELSE @,
          !.cur = IF speed.cur.line < speed.lines
                  THEN Candidate(speed.cur.line + 1)
                  ELSE [@ EXCEPT !.state = "collected"]]
    /\ UNCHANGED batchVars
    /\ UNCHANGED << strict, stab, term, out, toolVars >>

\* After the executor: sys.exit(0) without results, else the sort.
SpeedRank ==
    /\ speed.phase = "testing"
    /\ speed.cur.state = "collected"
    /\ speed' =
          IF speed.results = << >>
          THEN [speed EXCEPT !.phase = "no_results"]
          ELSE [speed EXCEPT
                   !.ranked = sorted(speed.results, sort_by_speed(speed)),
                   !.phase = "ranked"]
    /\ UNCHANGED batchVars
    /\ UNCHANGED << strict, stab, term, out, toolVars >>

SpeedNext ==
    SpeedProbe \/ SpeedScore \/ SpeedDownload \/ SpeedCollect \/ SpeedRank

SpeedSpec == SpeedInit /\ [][SpeedNext]_vars

\* ------------------------------------------------- input deduplication
\* hysteria_checker.main, lines 357-375. keys is the list of (link, full)
\* left by the protocol filter of line 359, not empty (line 360); full,
\* the line the link was read from, is told apart by its line number.
\* normalize_proxy_link is a function of the link alone; 0 stands for a
\* result that is empty.
NoNorm == 0

KeysOf(links) == [i \in DOMAIN links |-> [link |-> links[i], full |-> i]]

DedupInit ==
    /\ IdleBatch
    /\ strict = StrictIdle
    /\ stab = StabIdle
    /\ OthersIdle("dedup")
    /\ \E n \in 1..MaxInput :
       \E links \in [1..n -> 1..MaxDedupLinks] :
       \E f \in [1..MaxDedupLinks -> NoNorm..MaxNorms] :
          dedup = [phase |-> "loop", keys |-> KeysOf(links),
                   normalize_proxy_link |-> f, i |-> 1, seen |-> {},
                   unique |-> << >>, link_to_full |-> << >>,
                   links_only |-> << >>, total |-> 0]

\* Mutation of DedupStep: seen is not consulted.
DedupStep_SeenIgnored ==
    /\ dedup.phase = "loop"
    /\ dedup.i <= Len(dedup.keys)
    /\ LET key == dedup.keys[dedup.i]
           norm == dedup.normalize_proxy_link[key.link]
       IN  dedup' = IF norm # NoNorm
                    THEN [dedup EXCEPT !.seen = @ \cup {norm},
                                       !.unique = Append(@, key),
                                       !.i = @ + 1]
                    ELSE [dedup EXCEPT !.i = @ + 1]
    /\ UNCHANGED << batchVars, strict, stab, term, speed, out >>
    /\ UNCHANGED << entry, merge, filt, geo >>

\* One turn of the loop of lines 367-371.
DedupStep ==
    /\ dedup.phase = "loop"
    /\ dedup.i <= Len(dedup.keys)
    /\ LET key == dedup.keys[dedup.i]
           norm == dedup.normalize_proxy_link[key.link]
       IN  dedup' = IF norm # NoNorm /\ norm \notin dedup.seen
                    THEN [dedup EXCEPT !.seen = @ \cup {norm},
                                       !.unique = Append(@, key),
                                       !.i = @ + 1]
                    ELSE [dedup EXCEPT !.i = @ + 1]
    /\ UNCHANGED << batchVars, strict, stab, term, speed, out >>
    /\ UNCHANGED << entry, merge, filt, geo >>

\* {link: full for link, full in pairs}: a later pair with the same link
\* replaces the earlier one.
dict_of(pairs) ==
    [l \in { pairs[k].link : k \in DOMAIN pairs } |->
        LET last == CHOOSE k \in DOMAIN pairs :
                       /\ pairs[k].link = l
                       /\ \A j \in DOMAIN pairs : pairs[j].link = l => j <= k
        IN  pairs[last].full]

\* Lines 373-375: the mapping and the list the executor is given.
DedupSchedule ==
    /\ dedup.phase = "loop"
    /\ dedup.i > Len(dedup.keys)
    /\ dedup' = [dedup EXCEPT
                   !.link_to_full = dict_of(dedup.unique),
                   !.links_only = [k \in DOMAIN dedup.unique |->
                                      dedup.unique[k].link],
                   !.total = Len(dedup.unique),
                   !.phase = "scheduled"]
    /\ UNCHANGED << batchVars, strict, stab, term, speed, out >>
    /\ UNCHANGED << entry, merge, filt, geo >>

DedupNext == DedupStep \/ DedupSchedule

DedupSpec == DedupInit /\ [][DedupNext]_vars

\* ------------------------------------------------ container entrypoint
\* docker_entrypoint.main. A file of /app/configs is absent, empty or
\* filled; what is in it is left out: main only asks whether it is there
\* and whether its size is positive, before reading it whole.
FileStates == {"absent", "empty", "filled"}

ConfigFiles == [wl : FileStates, wl_st : FileStates,
                hysteria : FileStates, hysteria_st : FileStates]

NoExit == -1

\* subprocess.run(...) of a program: it is appended to what was launched
\* with the status it returned.
launch(e, program, returncode, files) ==
    [e EXCEPT !.launched = Append(@, program),
              !.rets = Append(@, returncode),
              !.files = files]

\* sys.exit(status)
exit(e, status) == [e EXCEPT !.pc = "exited", !.exit = status]

\* The configs directory may hold the files of an earlier run (lines
\* 313-315 only create the directory).
EntryInit ==
    /\ IdleBatch
    /\ strict = StrictIdle
    /\ stab = StabIdle
    /\ OthersIdle("entry")
    /\ \E fs \in ConfigFiles :
       \E st \in BOOLEAN :
          entry = [pc |-> "load", firewall |-> FALSE, launched |-> << >>,
                   rets |-> << >>, files |-> fs,
                   speedtest_enabled |-> st,
                   n_xray |-> FALSE, n_hysteria |-> FALSE,
                   xray_content |-> "", hysteria_content |-> "",
                   written |-> FALSE, exit |-> NoExit]

\* Lines 164-285: the list is loaded (merge, stdin, file or URL) and
\* deduplicated; a missing file or a failed download exits with 1; with no
\* list and no DEFAULT_LIST_URL (lines 232-236) the process is replaced by
\* vless_checker. n_xray and n_hysteria are what line 307 finds in the
\* list: whether each part is empty.
EntryLoad ==
    /\ entry.pc = "load"
    /\ \/ entry' = exit(entry, 1)
       \/ entry' = [launch(entry, "vless_checker", NoExit, entry.files)
                       EXCEPT !.pc = "execed"]
       \/ \E x, h \in BOOLEAN :
             entry' = [entry EXCEPT !.n_xray = x, !.n_hysteria = h,
                                    !.pc = "whitelist"]
    /\ UNCHANGED << batchVars, strict, stab, term, speed, out >>
    /\ UNCHANGED << dedup, merge, filt, geo >>

\* Lines 287-293: fetch(CIDR_WHITELIST_URL).
EntryFetchWhitelist ==
    /\ entry.pc = "whitelist"
    /\ \/ entry' = [entry EXCEPT !.pc = "iptables"]
       \/ entry' = exit(entry, 1)
    /\ UNCHANGED << batchVars, strict, stab, term, speed, out >>
    /\ UNCHANGED << dedup, merge, filt, geo >>

\* Lines 299-304 with setup_iptables (136-161): iptables-restore returns 0
\* and the rules are in force, or setup_iptables raises.
EntrySetupIptables ==
    /\ entry.pc = "iptables"
    /\ \/ entry' = [entry EXCEPT !.firewall = TRUE, !.pc = "xray"]
       \/ entry' = exit(entry, 1)
    /\ UNCHANGED << batchVars, strict, stab, term, speed, out >>
    /\ UNCHANGED << dedup, merge, filt, geo >>

\* Lines 335-347: vless_checker on the Xray part of the list, or an empty
\* white-list_available when that part is empty.
EntryXray ==
    /\ entry.pc = "xray"
    /\ IF entry.n_xray
       THEN \E rc \in 0..MaxExit :
            \E wl \in FileStates :
               LET e == launch(entry, "vless_checker", rc,
                               [entry.files EXCEPT !.wl = wl])
               IN  entry' = IF rc # 0 THEN exit(e, rc)
                            ELSE [e EXCEPT !.pc = "hysteria"]
       ELSE entry' = [entry EXCEPT !.files.wl = "empty", !.pc = "hysteria"]
    /\ UNCHANGED << batchVars, strict, stab, term, speed, out >>
    /\ UNCHANGED << dedup, merge, filt, geo >>

\* Mutation of EntryHysteria: a failed checker ends the run.
EntryHysteria_Aborts ==
    /\ entry.pc = "hysteria"
    /\ IF entry.n_hysteria
       THEN \E rc \in 0..MaxExit :
            \E hy \in {entry.files.hysteria, "filled"} :
               LET e == launch(entry, "hysteria_checker", rc,
                               [entry.files EXCEPT !.hysteria = hy])
               IN  entry' = IF rc # 0 THEN exit(e, rc)
                            ELSE [e EXCEPT !.pc = "xray_st"]
       ELSE entry' = [entry EXCEPT !.pc = "xray_st"]
    /\ UNCHANGED << batchVars, strict, stab, term, speed, out >>
    /\ UNCHANGED << dedup, merge, filt, geo >>

\* Lines 349-353: hysteria_checker on the Hysteria part; it writes
\* configs/hysteria when it accepted a candidate and leaves the file as it
\* was otherwise (hysteria_checker.py 443-459).
EntryHysteria ==
    /\ entry.pc = "hysteria"
    /\ IF entry.n_hysteria
       THEN \E rc \in 0..MaxExit :
            \E hy \in {entry.files.hysteria, "filled"} :
               entry' = [launch(entry, "hysteria_checker", rc,
                                [entry.files EXCEPT !.hysteria = hy])
                            EXCEPT !.pc = "xray_st"]
       ELSE entry' = [entry EXCEPT !.pc = "xray_st"]
    /\ UNCHANGED << batchVars, strict, stab, term, speed, out >>
    /\ UNCHANGED << dedup, merge, filt, geo >>

\* Lines 355-370: xray_content is read from white-list_available_st when
\* the speedtest returned 0 and left that file filled, from
\* white-list_available otherwise.
EntryXraySpeedtest ==
    /\ entry.pc = "xray_st"
    /\ IF entry.speedtest_enabled /\ entry.files.wl = "filled"
       THEN \E rc \in 0..MaxExit :
            \E st \in FileStates :
               entry' = [launch(entry, "speedtest_checker", rc,
                                [entry.files EXCEPT !.wl_st = st])
                            EXCEPT !.xray_content =
                                      IF rc = 0 /\ st = "filled"
                                      THEN "wl_st" ELSE "wl",
                                   !.pc = "hysteria_st"]
       ELSE entry' = [entry EXCEPT !.xray_content =
                                      IF entry.files.wl # "absent"
                                      THEN "wl" ELSE "",
                                   !.pc = "hysteria_st"]
    /\ UNCHANGED << batchVars, strict, stab, term, speed, out >>
    /\ UNCHANGED << dedup, merge, filt, geo >>

\* Lines 372-386, the same for configs/hysteria and configs/hysteria_st.
EntryHysteriaSpeedtest ==
    /\ entry.pc = "hysteria_st"
    /\ IF entry.speedtest_enabled /\ entry.files.hysteria = "filled"
       THEN \E rc \in 0..MaxExit :
            \E st \in FileStates :
               entry' = [launch(entry, "speedtest_hysteria", rc,
                                [entry.files EXCEPT !.hysteria_st = st])
                            EXCEPT !.hysteria_content =
                                      IF rc = 0 /\ st = "filled"
                                      THEN "hysteria_st" ELSE "hysteria",
                                   !.pc = "merge"]
       ELSE entry' = [entry EXCEPT !.hysteria_content =
                                      IF entry.files.hysteria = "filled"
                                      THEN "hysteria" ELSE "",
                                   !.pc = "merge"]
    /\ UNCHANGED << batchVars, strict, stab, term, speed, out >>
    /\ UNCHANGED << dedup, merge, filt, geo >>

\* Lines 388-418: the merged list and its first 100 lines are written to
\* white-list_available and white-list_available(top100); exit 0.
EntryMerge ==
    /\ entry.pc = "merge"
    /\ entry' = exit([entry EXCEPT !.written = TRUE,
                         !.files.wl = IF \/ entry.xray_content = "wl_st"
                                         \/ entry.files.wl = "filled"
                                         \/ entry.hysteria_content # ""
                                      THEN "filled" ELSE "empty"], 0)
    /\ UNCHANGED << batchVars, strict, stab, term, speed, out >>
    /\ UNCHANGED << dedup, merge, filt, geo >>

EntryNext ==
    \/ EntryLoad
    \/ EntryFetchWhitelist
    \/ EntrySetupIptables
    \/ EntryXray
    \/ EntryHysteria
    \/ EntryXraySpeedtest
    \/ EntryHysteriaSpeedtest
    \/ EntryMerge

EntrySpec == EntryInit /\ [][EntryNext]_vars

\* ---------------------------------------------- the entrypoint's merge
\* docker_entrypoint.main, lines 388-417. A line is its first token cut at
\* '#': the link before it (0: nothing before it) and the fragment after
\* it ("": none). Link 0 without a fragment is a blank line, link 0 with a
\* fragment a line that starts with '#'.
Fragments == {"", "x"}

MergeLines == [link : 0..MaxMergeLinks, frag : Fragments]

\* The contents read in stages 3 and 4: every short list, and a list of
\* more than 100 different links.
LongList == [i \in 1..(TopN + MaxOver) |-> [link |-> i, frag |-> ""]]

MergeContents ==
    UNION { [1..n -> MergeLines] : n \in 0..MaxMergeLines } \cup {LongList}

\* l.strip() is not empty
nonblank(line) == line.link # 0 \/ line.frag # ""

\* Mutation of merged: the Hysteria lines come first.
merged_HysteriaFirst(xray_content, hysteria_content) ==
    SelectSeq(IF hysteria_content # << >>
              THEN hysteria_content \o xray_content
              ELSE xray_content, nonblank)

\* raw_lines of lines 389-390: xray_content followed by hysteria_content,
\* lines that are blank left out.
merged(xray_content, hysteria_content) ==
    SelectSeq(IF hysteria_content # << >>
              THEN xray_content \o hysteria_content
              ELSE xray_content, nonblank)

\* _norm_link of lines 392-396: the first token up to '#'.
_norm_link(line) == line.link

MergeInit ==
    /\ IdleBatch
    /\ strict = StrictIdle
    /\ stab = StabIdle
    /\ OthersIdle("merge")
    /\ \E x, h \in MergeContents :
          /\ x = LongList => Len(h) <= 1
          /\ h = LongList => Len(x) <= 1
          /\ merge = [phase |-> "read", xray_content |-> x,
                      hysteria_content |-> h, raw_lines |-> << >>,
                      i |-> 1, seen_norm |-> {}, lines |-> << >>,
                      white_list |-> << >>, top100 |-> << >>]

\* Lines 389-390.
MergeRead ==
    /\ merge.phase = "read"
    /\ merge' = [merge EXCEPT
                   !.raw_lines = merged(merge.xray_content,
                                        merge.hysteria_content),
                   !.phase = "loop"]
    /\ UNCHANGED << batchVars, strict, stab, term, speed, out >>
    /\ UNCHANGED << dedup, entry, filt, geo >>

\* One turn of the loop of lines 400-404.
MergeStep ==
    /\ merge.phase = "loop"
    /\ merge.i <= Len(merge.raw_lines)
    /\ LET line == merge.raw_lines[merge.i]
           n == _norm_link(line)
       IN  merge' = IF n # 0 /\ n \notin merge.seen_norm
                    THEN [merge EXCEPT !.seen_norm = @ \cup {n},
                                       !.lines = Append(@, line),
                                       !.i = @ + 1]
                    ELSE [merge EXCEPT !.i = @ + 1]
    /\ UNCHANGED << batchVars, strict, stab, term, speed, out >>
    /\ UNCHANGED << dedup, entry, filt, geo >>

\* Lines 408-416: both files are written, the second with lines[:100].
MergeWrite ==
    /\ merge.phase = "loop"
    /\ merge.i > Len(merge.raw_lines)
    /\ merge' = [merge EXCEPT
                   !.white_list = merge.lines,
                   !.top100 = [k \in 1..(IF Len(merge.lines) < TopN
                                         THEN Len(merge.lines) ELSE TopN)
                                 |-> merge.lines[k]],
                   !.phase = "written"]
    /\ UNCHANGED << batchVars, strict, stab, term, speed, out >>
    /\ UNCHANGED << dedup, entry, filt, geo >>

MergeNext == MergeRead \/ MergeStep \/ MergeWrite

MergeSpec == MergeInit /\ [][MergeNext]_vars

\* ------------------------------------------------------ endpoint filter
\* filter_excluded_endpoints.py. Hosts are a domain in two spellings, a
\* numeric address and the empty string.
FilterHosts == {"", "a.com", "A.com", "1.2.3.4"}

FilterPorts == {443, 8443}

\* _normalize_host of lines 20-30: a numeric address as it is, anything
\* else in lower case.
_normalize_host(h) ==
    IF h = "" \/ h = "1.2.3.4" THEN h
    ELSE IF h = "A.com" THEN "a.com" ELSE h

\* A line of the exclusion list: blank or comment, "host", or "host:port".
RuleLines ==
    { [kind |-> "ignored", host |-> "", port |-> 0],
      [kind |-> "host", host |-> "A.com", port |-> 0],
      [kind |-> "host", host |-> "1.2.3.4", port |-> 0],
      [kind |-> "endpoint", host |-> "a.com", port |-> 443],
      [kind |-> "endpoint", host |-> "A.com", port |-> 8443],
      [kind |-> "endpoint", host |-> "1.2.3.4", port |-> 443],
      [kind |-> "endpoint", host |-> "", port |-> 443] }

\* _parse_exclude_lines of lines 33-63; "host:port" is kept as the pair.
exact_endpoints_of(rules) ==
    { << _normalize_host(rules[k].host), rules[k].port >> :
        k \in { j \in DOMAIN rules : /\ rules[j].kind = "endpoint"
                                     /\ _normalize_host(rules[j].host) # ""
                                     /\ rules[j].port >= 0 } }

hosts_only_of(rules) ==
    { _normalize_host(rules[k].host) :
        k \in { j \in DOMAIN rules : /\ rules[j].kind = "host"
                                     /\ _normalize_host(rules[j].host) # "" } }

\* An input line: blank, a comment, a link parse_proxy_url makes nothing
\* of, or a link with its address and port.
FilterLines ==
    { [kind |-> k, address |-> "", port |-> 0] :
         k \in {"blank", "comment", "unparseable"} }
    \cup [kind : {"proxy"}, address : FilterHosts \ {""}, port : FilterPorts]
    \cup { [kind |-> "proxy", address |-> "", port |-> 443] }

NoRule == << >>

\* Mutation of is_excluded: the host-only rules are not consulted.
is_excluded_ExactOnly(address, port_, exact_endpoints, hosts_only) ==
    IF address = "" THEN NoRule
    ELSE LET host_norm == _normalize_host(address)
         IN  IF << host_norm, port_ >> \in exact_endpoints
             THEN << host_norm, port_ >>
             ELSE NoRule

\* is_excluded of lines 74-89: the rule that matched, or None.
is_excluded(address, port_, exact_endpoints, hosts_only) ==
    IF address = "" THEN NoRule
    ELSE LET host_norm == _normalize_host(address)
         IN  IF << host_norm, port_ >> \in exact_endpoints
             THEN << host_norm, port_ >>
             ELSE IF host_norm \in hosts_only THEN << host_norm >>
             ELSE NoRule

FilterInit ==
    /\ IdleBatch
    /\ strict = StrictIdle
    /\ stab = StabIdle
    /\ OthersIdle("filt")
    /\ \E n \in 0..MaxFilterLines :
       \E m \in 0..MaxRuleLines :
       \E ls \in [1..n -> FilterLines] :
       \E rs \in [1..m -> RuleLines] :
          filt = [phase |-> "rules", lines |-> ls, rules |-> rs,
                  exact_endpoints |-> {}, hosts_only |-> {}, i |-> 1,
                  stdout |-> << >>, excluded_count |-> 0]

\* Lines 94-111: the rules are parsed; with no rule every line is copied.
FilterRules ==
    /\ filt.phase = "rules"
    /\ LET exact == exact_endpoints_of(filt.rules)
           hosts == hosts_only_of(filt.rules)
       IN  filt' = IF exact = {} /\ hosts = {}
                   THEN [filt EXCEPT !.stdout = filt.lines,
                                     !.phase = "done"]
                   ELSE [filt EXCEPT !.exact_endpoints = exact,
                                     !.hosts_only = hosts,
                                     !.phase = "loop"]
    /\ UNCHANGED << batchVars, strict, stab, term, speed, out >>
    /\ UNCHANGED << dedup, entry, merge, geo >>

\* One turn of the loop of lines 126-148.
FilterLine ==
    /\ filt.phase = "loop"
    /\ filt.i <= Len(filt.lines)
    /\ LET line == filt.lines[filt.i]
       IN  filt' =
             IF line.kind # "proxy"
             THEN [filt EXCEPT !.stdout = Append(@, line), !.i = @ + 1]
             ELSE IF is_excluded(line.address, line.port,
                                 filt.exact_endpoints,
                                 filt.hosts_only) # NoRule
             THEN [filt EXCEPT !.excluded_count = @ + 1, !.i = @ + 1]
             ELSE [filt EXCEPT !.stdout = Append(@, line), !.i = @ + 1]
    /\ UNCHANGED << batchVars, strict, stab, term, speed, out >>
    /\ UNCHANGED << dedup, entry, merge, geo >>

\* Lines 150-159: the loop is over, the count goes to stderr.
FilterDone ==
    /\ filt.phase = "loop"
    /\ filt.i > Len(filt.lines)
    /\ filt' = [filt EXCEPT !.phase = "done"]
    /\ UNCHANGED << batchVars, strict, stab, term, speed, out >>
    /\ UNCHANGED << dedup, entry, merge, geo >>

FilterNext == FilterRules \/ FilterLine \/ FilterDone

FilterSpec == FilterInit /\ [][FilterNext]_vars

\* ------------------------------------------------------ country lookups
\* strip_vpn_comments.py. A link counts by the address resolve_to_ip gives
\* for its host, 0 when there is no host or no address.
NoIp == 0

CountryCodes == {"", "DE", "US"}

\* What the request of lines 99-105 comes to: a reply with its countryCode
\* ("" when the field is missing or empty), or an exception.
GeoOutcomes == [ok : {TRUE}, cc : CountryCodes] \cup {[ok |-> FALSE, cc |-> ""]}

\* Mutation of fetch_country_for_ip: a failed request leaves no entry.
fetch_country_for_ip_FailureNotCached(ip, cache, outcome) ==
    IF cache[ip] # "unset"
    THEN [cc |-> cache[ip], cache |-> cache, requested |-> FALSE]
    ELSE IF outcome.ok
    THEN [cc |-> outcome.cc, cache |-> [cache EXCEPT ![ip] = outcome.cc],
          requested |-> TRUE]
    ELSE [cc |-> "", cache |-> cache, requested |-> TRUE]

\* fetch_country_for_ip of lines 94-109: the value returned, the cache
\* after the call and whether a request was sent.
fetch_country_for_ip(ip, cache, outcome) ==
    IF cache[ip] # "unset"
    THEN [cc |-> cache[ip], cache |-> cache, requested |-> FALSE]
    ELSE IF outcome.ok
    THEN [cc |-> outcome.cc, cache |-> [cache EXCEPT ![ip] = outcome.cc],
          requested |-> TRUE]
    ELSE [cc |-> "", cache |-> [cache EXCEPT ![ip] = ""],
          requested |-> TRUE]

\* Lines 117-125: the lines are read, geo_cache is empty.
GeoInit ==
    /\ IdleBatch
    /\ strict = StrictIdle
    /\ stab = StabIdle
    /\ OthersIdle("geo")
    /\ \E n \in 0..MaxGeoLines :
       \E ips \in [1..n -> NoIp..MaxIps] :
       \E c \in BOOLEAN :
          geo = [phase |-> "loop", ips |-> ips, add_comment |-> c, i |-> 1,
                 geo_cache |-> [ip \in 1..MaxIps |-> "unset"],
                 requests |-> [ip \in 1..MaxIps |-> 0],
                 result |-> << >>]

\* One turn of the loop of lines 126-136 for a link that is not empty.
GeoLine ==
    /\ geo.phase = "loop"
    /\ geo.i <= Len(geo.ips)
    /\ LET ip == geo.ips[geo.i]
       IN  IF geo.add_comment /\ ip # NoIp
           THEN \E outcome \in GeoOutcomes :
                   LET r == fetch_country_for_ip(ip, geo.geo_cache, outcome)
                   IN  geo' = [geo EXCEPT
                                 !.geo_cache = r.cache,
                                 !.requests[ip] =
                                     IF r.requested THEN @ + 1 ELSE @,
                                 !.result = Append(@, r.cc),
                                 !.i = @ + 1]
           ELSE geo' = [geo EXCEPT !.result = Append(@, ""), !.i = @ + 1]
    /\ UNCHANGED << batchVars, strict, stab, term, speed, out >>
    /\ UNCHANGED << dedup, entry, merge, filt >>

\* Line 137: the result is written.
GeoWrite ==
    /\ geo.phase = "loop"
    /\ geo.i > Len(geo.ips)
    /\ geo' = [geo EXCEPT !.phase = "written"]
    /\ UNCHANGED << batchVars, strict, stab, term, speed, out >>
    /\ UNCHANGED << dedup, entry, merge, filt >>

GeoNext == GeoLine \/ GeoWrite

GeoSpec == GeoInit /\ [][GeoNext]_vars

\* ================================================================ claims

\* C1: no port is ever held by two live tasks, that is, never are two
\* running client processes of two tasks configured on the same port.
C1_PortHeldByOneLiveTask ==
    \A t \in Tasks : \A u \in Tasks :
        (t # u /\ port[t] # NoPort /\ port[t] = port[u])
            => ~(proc[t] = "running" /\ proc[u] = "running")

\* C2: a port is in the free set only when the process the task bound to it
\* is no longer alive.
C2_StoppedBeforeRecycled ==
    \A t \in Tasks :
        (port[t] # NoPort /\ port[t] \in free) => ~ProcAlive(t)

\* The exit paths C3 lists: success, validation failure, config-write
\* failure, spawn failure, startup death, port-wait timeout, and an exception
\* raised during spawn or probing.
C3_Paths == {"pass", "rejected", "write_failed", "absent", "died",
             "port_timeout", "unrunnable", "probe_raised"}

\* C3: on each of these exit paths the finished task no longer holds its
\* port, and once a batch that took only these paths has finished the pool's
\* free count equals its initial count.
C3_PortAlwaysReturned ==
    /\ \A t \in Tasks :
          (pc[t] = "done" /\ why[t] \in C3_Paths) => port[t] = NoPort
    /\ (AllDone /\ \A t \in Tasks : why[t] \in C3_Paths)
          => Cardinality(free) = Cardinality(ports)

\* C4: when a task has finished, whatever its outcome, the config file it
\* created no longer exists.
C4_ConfigAlwaysDeleted ==
    \A t \in Tasks : pc[t] = "done" => ~file[t]

\* The per-candidate failure classes C5 names: port exhausted, spawn failed
\* (executable absent or unrunnable), startup timeout (process died or
\* listener never opened), validation rejected.
C5_FailureClasses == {"exhausted", "absent", "unrunnable", "died",
                      "port_timeout", "rejected"}

\* C5: a task that ends in one of these failure classes returns a failed
\* result; it does not end by raising.
C5_FailureBecomesResult ==
    \A t \in Tasks :
        (pc[t] = "done" /\ why[t] \in C5_FailureClasses) => ret[t] = "fail"

\* C6: a task that raised has still been torn down: when its future has
\* resolved with an exception its port is released and its config is gone.
C6_RaisedTaskTornDown ==
    \A t \in Tasks :
        (pc[t] = "done" /\ ret[t] = "raised")
            => (port[t] = NoPort /\ ~file[t])

\* C7: each link's entry of all_metrics is written exactly once, when its
\* future is collected, whether the task returned or raised; the progress
\* counter equals the number of collected futures, and when the batch ends
\* every candidate has its entry and the counter equals the batch size.
C7_OneResultPerCandidate ==
    /\ advanced = Cardinality({ t \in Tasks : collected[t] })
    /\ prog = "checker" =>
          \A t \in Tasks :
              /\ writes[t] = (IF collected[t] THEN 1 ELSE 0)
              /\ collected[t] <=> all_metrics[t] # "unset"
    /\ BatchEnded => advanced = NumTasks

C7_Witness ==
    /\ prog = "checker"
    /\ BatchEnded
    /\ \E t \in Tasks : ret[t] = "raised" /\ all_metrics[t] = "empty"
    /\ \E t \in Tasks : ret[t] # "raised" /\ all_metrics[t] = "metrics"

C8_TakeOnEmptyPool ==
    \A t \in Tasks :
        (pc[t] = "take" /\ pc'[t] # "take" /\ free = {})
            => /\ pc'[t] = "done"
               /\ ret'[t] = "fail"
               /\ why'[t] = "exhausted"
               /\ free' = free

\* C8: a task that finds the pool empty is never made to wait (its take is
\* enabled whatever the other tasks do), gets None at once and ends with a
\* failed result without having spawned a client or issued a probe.
C8_ExhaustedFailsAtOnce ==
    /\ [](\A t \in Tasks :
            /\ pc[t] = "take" => ENABLED TakePort(t)
            /\ why[t] = "exhausted" =>
                  /\ pc[t] = "done" /\ ret[t] = "fail"
                  /\ spawns[t] = 0 /\ probes[t] = 0
                  /\ proc[t] = "none" /\ ~file[t])
    /\ [][C8_TakeOnEmptyPool]_vars

C8_Witness ==
    /\ Cardinality(ports) = 1
    /\ \E t \in Tasks : \E u \in Tasks :
          /\ why[t] = "exhausted" /\ pc[t] = "done"
          /\ port[u] # NoPort /\ pc[u] \notin {"queued", "done"}

\* C9: counted from a return (or from the start), the first k take() calls,
\* k the number of free ports then, yield pairwise distinct ports and every
\* further take() yields None; in particular N takes succeed again once all
\* N ports are back. No port is handed to two holders.
C9_PoolTakeSequence ==
    LET r == history.results
        n == Cardinality(history.base)
    IN  /\ \A i \in 1..Len(r) : (r[i] = NoPort) <=> (i > n)
        /\ \A i \in 1..Len(r) : r[i] # NoPort => r[i] \in history.base
        /\ \A i \in 1..Len(r) : \A j \in 1..Len(r) :
              (i < j /\ r[i] # NoPort) => r[i] # r[j]
        /\ \A c \in 1..MaxClients : \A d \in 1..MaxClients :
              c # d => clients[c] \cap clients[d] = {}
        /\ \A c \in 1..MaxClients : clients[c] \cap free = {}

C9_Witness ==
    /\ history.base = ports
    /\ history.calls > Len(history.results)
    /\ Len(history.results) = Cardinality(ports) + 1
    /\ history.results[Len(history.results)] = NoPort

\* C10: the second release of a task that already returned its port inside
\* the try block leaves the free set as it was.
C10_SecondReleaseIsNoOp ==
    [][\A t \in Tasks :
          (pc[t] = "fin_return" /\ early[t] /\ pc'[t] = "done")
              => free' = free]_vars

\* The four conditions of a successful attempt, with max_ok_time always
\* applied.
C12_FourConditions(o, mot) ==
    o.response /\ ~o.error /\ o.valid /\ o.elapsed <= mot

\* The same, the time limit applying only when max_ok_time is positive.
C12_FourConditionsAmended(o, mot) ==
    o.response /\ ~o.error /\ o.valid /\ (mot > 0 => o.elapsed <= mot)

\* The attempts made so far that were successful.
SuccessfulAttempts ==
    { i \in 1..Len(strict.outcomes) :
        C12_FourConditionsAmended(strict.outcomes[i], max_ok_time(strict)) }

StrictEnded == strict.result \in {"pass", "fail"}

\* C11: when the strict protocol has ended, the candidate passed if and only
\* if at least two of its attempts were successful, whatever attempts_total.
C11_PassIffTwoSuccesses ==
    StrictEnded =>
        (strict.result = "pass" <=> Cardinality(SuccessfulAttempts) >= 2)

C11_Witness ==
    /\ strict.result = "pass"
    /\ attempts_total(strict) = 5
    /\ Cardinality(SuccessfulAttempts) = 2

\* C12 as stated: the attempts counted are exactly those with a response, no
\* error, a valid response and an elapsed time <= max_ok_time, and there is
\* one sample per counted attempt.
C12_CountedOnlyIfAllFour ==
    /\ strict.success_count =
          Cardinality({ i \in 1..Len(strict.outcomes) :
              C12_FourConditions(strict.outcomes[i], max_ok_time(strict)) })
    /\ Len(strict.response_times) = strict.success_count

\* C12 amended: the attempts counted are exactly those with a response, no
\* error, a valid response and, when max_ok_time is positive, an elapsed
\* time <= max_ok_time; there is one sample per counted attempt.
C12_CountedOnlyIfAllFourAmended ==
    /\ strict.success_count = Cardinality(SuccessfulAttempts)
    /\ Len(strict.response_times) = strict.success_count

C12_Witness ==
    /\ max_ok_time(strict) > 0
    /\ strict.success_count >= 1
    /\ \E i \in 1..Len(strict.outcomes) :
          /\ strict.outcomes[i].valid
          /\ strict.outcomes[i].elapsed > max_ok_time(strict)
    /\ \E i \in 1..Len(strict.outcomes) :
          strict.outcomes[i].error /\ ~strict.outcomes[i].response

RECURSIVE C13_ElapsedOfSuccessful(_, _)
C13_ElapsedOfSuccessful(outs, mot) ==
    IF outs = << >> THEN << >>
    ELSE LET rest == C13_ElapsedOfSuccessful(Tail(outs), mot)
         IN  IF C12_FourConditionsAmended(Head(outs), mot)
             THEN << Head(outs).elapsed >> \o rest
             ELSE rest

\* C13: on a pass the recorded samples are the elapsed times of the
\* successful attempts in attempt order, and successful_requests equals the
\* number of samples.
C13_SamplesOnPass ==
    strict.result = "pass" =>
        /\ strict.response_times =
              C13_ElapsedOfSuccessful(strict.outcomes, max_ok_time(strict))
        /\ strict.successful_requests = Len(strict.response_times)

\* Scenario B: three attempts, elapsed times 1 and 2, then a transport error.
C13_Witness ==
    /\ strict.result = "pass"
    /\ attempts_total(strict) = 3
    /\ max_ok_time(strict) = 2
    /\ strict.response_times = << 1, 2 >>
    /\ strict.outcomes[3].error /\ ~strict.outcomes[3].response

\* C14: a candidate all of whose attempts succeed except one, which ends in
\* a transport error, passes.
C14_OneFailureTolerated ==
    (/\ StrictEnded
     /\ Cardinality(SuccessfulAttempts) = Len(strict.outcomes) - 1
     /\ \E i \in 1..Len(strict.outcomes) :
           strict.outcomes[i].error /\ ~strict.outcomes[i].response)
        => strict.result = "pass"

\* The URLs of round r (1-based) that met their per-URL threshold, from the
\* numbers of successful attempts recorded for that round.
SuccessfulUrls(r) ==
    { u \in 1..Len(stab.request_ok[r]) :
        stab.request_ok[r][u] >= stab.MIN_SUCCESSFUL_REQUESTS }

\* Round r met the URL rule: all URLs in the strict sub-mode, at least
\* MIN_SUCCESSFUL_URLS otherwise.
UrlRuleMet(r) ==
    IF stab.STRICT_MODE /\ stab.STRICT_MODE_REQUIRE_ALL
    THEN SuccessfulUrls(r) = 1..Len(stab.all_urls)
    ELSE Cardinality(SuccessfulUrls(r)) >= stab.MIN_SUCCESSFUL_URLS

HttpsMissing == stab.REQUIRE_HTTPS /\ ~AnyHttps(stab.all_urls)

StabEnded == stab.result \in {"pass", "fail"}

\* C15 as stated: every finished round passed if and only if it met the URL
\* rule, a URL being successful iff its successful attempts reach
\* MIN_SUCCESSFUL_REQUESTS.
C15_RoundPassesIffUrlRule ==
    \A r \in 1..Len(stab.stability_results) :
        stab.stability_results[r] <=> UrlRuleMet(r)

\* C15 amended: every finished round passed if and only if it met the URL
\* rule and the HTTPS requirement did not force it to fail; during a round
\* successful_urls_count is the number of URLs tested so far that reached
\* MIN_SUCCESSFUL_REQUESTS.
C15_RoundPassesIffUrlRuleAmended ==
    /\ \A r \in 1..Len(stab.stability_results) :
          stab.stability_results[r] <=> (UrlRuleMet(r) /\ ~HttpsMissing)
    /\ stab.url > 0 =>
          stab.successful_urls_count =
              Cardinality(SuccessfulUrls(Len(stab.request_ok)))

C15_Witness ==
    /\ Len(stab.stability_results) = 2
    /\ stab.stability_results[1] /\ ~stab.stability_results[2]
    /\ ~(stab.STRICT_MODE /\ stab.STRICT_MODE_REQUIRE_ALL)
    /\ Len(stab.all_urls) = 2
    /\ Cardinality(SuccessfulUrls(1)) = 1
    /\ stab.request_ok[1][1] = stab.MIN_SUCCESSFUL_REQUESTS

\* C16: a candidate that passed the stability protocol passed every round.
C16_PassOnlyIfEveryRoundPassed ==
    stab.result = "pass" => All(stab.stability_results)

\* C17: with the HTTPS requirement set and no https URL in the list, every
\* round fails and the candidate fails.
C17_HttpsRequiredFails ==
    (StabEnded /\ HttpsMissing)
        => /\ stab.result = "fail"
           /\ \A r \in 1..Len(stab.stability_results) :
                 ~stab.stability_results[r]

InFinallyOrDone(t) == pc[t] \in {"fin_kill", "fin_unlink", "fin_return", "done"}

\* The task t moved in this step.
Moved(t) == << pc[t], waited[t] >> # << pc'[t], waited'[t] >>

\* C18: a startup poll that finds the process exited leaves the try block
\* at once with the failed result; such a task never reaches the port wait
\* or a probe and its candidate is never accepted.
C18_ExitedDuringStartupFails ==
    /\ [][\A t \in Tasks :
            (/\ pc[t] = "startup" /\ waited[t] < StartupPolls
             /\ proc[t] # "running" /\ Moved(t))
                => /\ pc'[t] = "fin_kill"
                   /\ ret'[t] = "fail"
                   /\ why'[t] = "died"]_vars
    /\ [](\A t \in Tasks :
            why[t] = "died" =>
                /\ InFinallyOrDone(t)
                /\ ret[t] = "fail"
                /\ probes[t] = 0
                /\ t \notin available)
    /\ [][\A t \in Tasks :
            InFinallyOrDone(t) =>
                /\ pc'[t] \in {"fin_kill", "fin_unlink", "fin_return", "done"}
                /\ probes'[t] = probes[t]
                /\ ret'[t] # "ok" \/ ret[t] = "ok"]_vars

C18_Witness ==
    \E t \in Tasks :
        /\ why[t] = "died" /\ pc[t] = "done" /\ collected[t]
        /\ proc[t] = "exited" /\ probes[t] = 0

C24_EveryTaskTerminates == <>(term.phase = "resolved")

\* C21: a task that obtained a process handle tears down once, in the
\* order terminate / wait / kill, unlink, return_port: the port goes back
\* to the pool in the last step of the finally block and nowhere earlier,
\* the finally block is walked through step by step, and a task that is
\* done has its process terminated, its config deleted and its port back.
C21_TeardownOnceInOrder ==
    /\ [][\A t \in Tasks :
            /\ ~(early'[t] /\ ~early[t])
            /\ (proc[t] # "none" /\ pc'[t] = "done" /\ pc[t] # "done")
                  => pc[t] = "fin_return"
            /\ (pc'[t] = "fin_return" /\ pc[t] # "fin_return")
                  => pc[t] = "fin_unlink"
            /\ (pc'[t] = "fin_unlink" /\ pc[t] # "fin_unlink")
                  => pc[t] = "fin_kill"]_vars
    /\ [](\A t \in Tasks :
            (pc[t] = "done" /\ proc[t] # "none")
                => /\ proc[t] = "exited"
                   /\ ~file[t]
                   /\ port[t] = NoPort)

\* C22: nothing fails inside the finally block: from each of its steps the
\* task goes on to the next one with the pending result unchanged, and the
\* last step puts the port back and resolves the future with that result.
C22_TeardownNeverFails ==
    [][\A t \in Tasks :
          /\ (pc[t] = "fin_kill" /\ pc'[t] # pc[t])
                => (pc'[t] = "fin_unlink" /\ ret'[t] = ret[t])
          /\ (pc[t] = "fin_unlink" /\ pc'[t] # pc[t])
                => (pc'[t] = "fin_return" /\ ret'[t] = ret[t])
          /\ (pc[t] = "fin_return" /\ pc'[t] # pc[t])
                => /\ pc'[t] = "done"
                   /\ ret'[t] = ret[t]
                   /\ port[t] \in free']_vars

\* C23: at most max_workers tasks run at any moment, a candidate's task is
\* started once and never again, and at most max_workers ports are out of
\* the pool and at most max_workers client processes are alive.
C23_BoundedFanOut ==
    /\ [](/\ Cardinality(Running) <= max_workers
          /\ Cardinality(ports \ free) <= max_workers
          /\ Cardinality({ t \in Tasks : ProcAlive(t) }) <= max_workers)
    /\ [][\A t \in Tasks : pc[t] # "queued" => pc'[t] # "queued"]_vars


\* The state private to the task t.
PrivateOf(t) ==
    << pc[t], port[t], proc[t], file[t], waited[t], early[t], ret[t],
       why[t], spawns[t], probes[t] >>

\* C28: a step changes the private state of at most one task; a process
\* changes state only where its own task spawns or kills it, or by exiting
\* on its own; a config file appears and disappears only in steps of its
\* own task; the pool changes only in a step of some task; and the result
\* collection changes only in a step of the collecting thread, which takes
\* one resolved future and touches no task and not the pool.
C28_NoSharedStateButPool ==
    [][/\ Cardinality({ t \in Tasks : PrivateOf(t)' # PrivateOf(t) }) <= 1
       /\ \A t \in Tasks :
             proc'[t] # proc[t] =>
                \/ pc[t] \in {"spawn", "fin_kill"} /\ pc'[t] # pc[t]
                \/ ProcAlive(t) /\ proc'[t] = "exited" /\ pc'[t] = pc[t]
       /\ \A t \in Tasks :
             file'[t] # file[t] =>
                pc[t] \in {"config", "spawn", "fin_unlink"} /\ pc'[t] # pc[t]
       /\ free' # free => \E t \in Tasks : pc'[t] # pc[t]
       /\ schedVars' # schedVars =>
             /\ taskVars' = taskVars
             /\ free' = free
             /\ \E t \in Tasks :
                   pc[t] = "done" /\ ~collected[t] /\ collected'[t]]_vars

C28_Witness ==
    \E t, u \in Tasks :
        /\ t # u
        /\ pc[t] = "probe" /\ pc[u] = "fin_kill" /\ why[u] = "pass"
        /\ proc[t] = "running" /\ proc[u] = "running"
        /\ file[t] /\ file[u]
        /\ port[t] # port[u]


\* C25: once a completion has been collected, the description shows
\* totals, OK + FAIL is the number of completions collected so far and OK
\* is the number of candidates accepted so far; also right after the
\* completion of a task that raised.
C25_TotalsMatchCompleted ==
    (out.phase # "idle" /\ out.completed > 0)
        => /\ out.description.totals
           /\ out.description.ok + out.description.fail = out.completed
           /\ out.description.ok = Len(out.available)

\* The candidates whose task returned ok.
Passed(l) == out.futures[l].state = "returned" /\ out.futures[l].ok

\* What C30 asks of the two files once main has ended: the result file
\* holds each accepted candidate once and no other line, in ascending order
\* of its average latency, and the top100 file holds its first
\* min(100, n) lines.
FilesAsRanked ==
    LET lines == out.output.lines
        n == Cardinality(out.available_links)
    IN  /\ Len(lines) = n
        /\ { lines[i] : i \in 1..Len(lines) } = out.available_links
        /\ \A i \in 1..Len(lines) : lines[i] \in 1..out.total
        /\ \A i \in 1..Len(lines) :
              lines[i] \in 1..out.total => Passed(lines[i])
        /\ \A i, j \in 1..Len(lines) :
              (i < j /\ lines[i] \in 1..out.total
                     /\ lines[j] \in 1..out.total)
                 => RatLeq(latency_ms(out.futures[lines[i]].response_times),
                           latency_ms(out.futures[lines[j]].response_times))
        /\ out.top100.lines =
              SubSeq(lines, 1, IF n < 100 THEN n ELSE 100)

\* C30: the result file lists the accepted candidates by ascending
\* average latency, the top100 file is its first min(100, n) lines, and
\* neither holds a candidate that failed.
C30_ResultFiles == out.phase = "written" => FilesAsRanked

\* C30 as amended: the same whenever a candidate was accepted; a run that
\* accepted none leaves both files as they were.
C30_ResultFilesAmended ==
    /\ [](out.phase = "written" /\ out.available_links # {}
             => /\ out.output.exists /\ out.top100.exists
                /\ FilesAsRanked)
    /\ [][(out.phase = "collecting" /\ out'.phase = "written"
           /\ out.available_links = {})
             => (out'.output = out.output /\ out'.top100 = out.top100)]_vars

C30_Witness ==
    /\ out.phase = "written"
    /\ out.total > TopN
    /\ Len(out.output.lines) = out.total
    /\ Len(out.top100.lines) = TopN
    /\ out.output.lines # lines_of(out.available)


\* C26: the ranking the speedtest writes is ascending where the scores
\* are latencies and descending where they are speeds or inverse
\* latencies, whatever the mode, the metric and the download URLs.
C26_RankingDirection ==
    speed.phase = "ranked" =>
        \A i, j \in 1..Len(speed.ranked) :
            i < j =>
               LET a == speed.ranked[i]
                   b == speed.ranked[j]
               IN  /\ (a.kind = "latency" /\ b.kind = "latency")
                          => RatLeq(a.score, b.score)
                   /\ (a.kind # "latency" /\ b.kind # "latency")
                          => RatLeq(b.score, a.score)

\* The lines that are in the sequence of pairs s.
LinesIn(s) == { s[i].line : i \in 1..Len(s) }

\* C27: a download that raised a transport error, did not answer 200 or
\* took less than the floor gives the candidate no score; a score that a
\* download did give is 10 * downloaded / elapsed rounded to hundredths,
\* of an elapsed time not under the floor; and no candidate with such a
\* download is among the results or in the ranking.
C27_NoScoreUnderFloor ==
    /\ (speed.phase # "idle" /\ speed.cur.dl.ran
        /\ speed.cur.state \in {"returned", "collected"})
          => LET d == speed.cur.dl
             IN  /\ (d.error # "none" \/ ~d.status200
                     \/ d.elapsed < DownloadFloor)
                        => speed.cur.ret.state # "pair"
                 /\ speed.cur.ret.state = "pair"
                        => /\ d.elapsed >= DownloadFloor
                           /\ speed.cur.ret.kind = "speed"
                           /\ speed.cur.ret.score[2] = 100
                           /\ 2 * d.elapsed * speed.cur.ret.score[1]
                                 <= 2000 * d.downloaded + d.elapsed
                           /\ 2 * d.elapsed * speed.cur.ret.score[1]
                                 >= 2000 * d.downloaded - d.elapsed
    /\ speed.phase # "idle"
          => /\ LinesIn(speed.results) \cap speed.bad_downloads = {}
             /\ LinesIn(speed.ranked) \cap speed.bad_downloads = {}
             /\ LinesIn(speed.ranked) \subseteq LinesIn(speed.results)

C27_Witness ==
    /\ speed.phase = "ranked"
    /\ speed.cur.dl.ran /\ speed.cur.dl.status200
    /\ speed.cur.dl.error = "none"
    /\ speed.cur.dl.elapsed < DownloadFloor
    /\ speed.cur.dl.downloaded > 0
    /\ speed.cur.line \in speed.bad_downloads
    /\ Len(speed.ranked) = speed.lines - 1
    /\ speed.lines > 1

\* The samples a correct run holds: the elapsed times, in ms, of the
\* probes of the log that succeeded, in order.
RECURSIVE OkSamples(_)
OkSamples(log) ==
    IF log = << >> THEN << >>
    ELSE IF Head(log).ok
         THEN << Head(log).elapsed * 1000 >> \o OkSamples(Tail(log))
         ELSE OkSamples(Tail(log))

SpeedReturned ==
    speed.phase # "idle" /\ speed.cur.state \in {"returned", "collected"}

\* What C29 says besides the value of the score: no probe starts at or
\* after the deadline, and a candidate without a successful probe returns
\* no result.
ProbesWithinDeadline ==
    /\ speed.phase # "idle"
          => \A k \in 1..Len(speed.cur.log) :
                speed.cur.log[k].started < speed.timeout
    /\ (SpeedReturned /\ OkSamples(speed.cur.log) = << >>)
          => speed.cur.ret.state = "none"

\* The score is the mean of the successful probes' times.
ScoreIsMean ==
    LET s == OkSamples(speed.cur.log)
    IN  /\ speed.cur.ret.kind = "latency"
        /\ speed.cur.ret.score[1] * Len(s) = sum(s) * speed.cur.ret.score[2]

\* C29: in latency mode a candidate's score is the mean of the elapsed
\* times in ms of its successful probes.
C29_LatencyScoreIsMean ==
    /\ ProbesWithinDeadline
    /\ (SpeedReturned /\ speed.mode = "latency"
        /\ speed.cur.ret.state = "pair") => ScoreIsMean

\* C29 as amended: so it is with a metric other than throughput; with the
\* throughput metric the score is 100000 divided by that mean.
C29_LatencyScoreIsMeanAmended ==
    /\ ProbesWithinDeadline
    /\ (SpeedReturned /\ speed.mode = "latency"
        /\ speed.cur.ret.state = "pair")
          => IF speed.metric # "throughput" THEN ScoreIsMean
             ELSE LET s == OkSamples(speed.cur.log)
                  IN  /\ speed.cur.ret.kind = "throughput"
                      /\ speed.cur.ret.score[1] * sum(s)
                            = 100000 * Len(s) * speed.cur.ret.score[2]

C29_Witness ==
    /\ SpeedReturned
    /\ speed.mode = "latency" /\ speed.metric = "latency"
    /\ speed.cur.ret.state = "pair"
    /\ speed.cur.i < speed.requests_count
    /\ \E k \in 1..Len(speed.cur.log) : ~speed.cur.log[k].ok
    /\ Len(speed.cur.response_times) = 1


\* max(2, STRONG_ATTEMPTS), as the claim writes it.
C33_Probes == IF strict.STRONG_ATTEMPTS < 2 THEN 2 ELSE strict.STRONG_ATTEMPTS

\* C33: the strict protocol makes one request per attempt and ends only
\* after max(2, STRONG_ATTEMPTS) of them, neither sooner once two were
\* counted nor sooner once two cannot be reached; total_requests is that
\* number on a pass and on a fail.
C33_AlwaysAllProbes ==
    /\ [](strict.result = "probing"
            => /\ strict.total_requests = strict.attempt
               /\ Len(strict.outcomes) = strict.attempt
               /\ strict.attempt <= C33_Probes)
    /\ [](StrictEnded
            => /\ strict.total_requests = C33_Probes
               /\ Len(strict.outcomes) = C33_Probes)
    /\ [][(strict.result = "probing" /\ strict'.result # "probing")
            => strict.attempt = C33_Probes]_vars

C33_Witness ==
    /\ strict.result = "pass"
    /\ strict.STRONG_ATTEMPTS = 4
    /\ strict.total_requests = 4
    /\ AttemptCounts(strict.outcomes[1], max_ok_time(strict))
    /\ AttemptCounts(strict.outcomes[2], max_ok_time(strict))
    /\ ~AttemptCounts(strict.outcomes[3], max_ok_time(strict))


\* The task of link l returned passed = true and the mean of its samples,
\* in ms, is within MAX_LATENCY_MS (no samples: a mean of 0).
WithinCap(l) ==
    LET rt == out.futures[l].response_times
    IN  /\ Passed(l)
        /\ sum(rt) * 1000 <= out.MAX_LATENCY_MS * (IF rt = << >> THEN 1
                                                   ELSE Len(rt))

Collected == { l \in 1..out.total : out.futures[l] # Pending }

\* C32: the accepted list holds exactly the collected candidates that
\* passed within the latency cap, each once; the totals written when a
\* returned result is collected count every other collected candidate, a
\* passed one above the cap included, as FAIL; and the metrics input flags
\* a candidate available exactly if it was accepted.
C32_AcceptedIffPassedWithinCap ==
    /\ [](out.phase # "idle"
            => /\ LinesIn(out.available) = { l \in Collected : WithinCap(l) }
               /\ Len(out.available) = Cardinality(LinesIn(out.available))
               /\ out.available_links = LinesIn(out.available))
    /\ [][\A l \in 1..out.total :
            (out.futures[l] = Pending /\ out'.futures[l].state = "returned")
               => /\ out'.description.totals
                  /\ out'.description.ok =
                        Cardinality({ k \in Collected' : WithinCap(k)' })
                  /\ out'.description.fail =
                        Cardinality({ k \in Collected' : ~WithinCap(k)' })]_vars
    /\ [](out.phase = "written"
            => \A l \in 1..out.total :
                  out.results_for_metrics[l] <=> WithinCap(l))

C32_Witness ==
    /\ out.phase = "written"
    /\ out.total = 2
    /\ out.MAX_LATENCY_MS = 1000
    /\ out.futures[1].ok /\ out.futures[1].response_times = << 1, 2 >>
    /\ out.futures[2].ok /\ out.futures[2].response_times = << 1, 1 >>
    /\ out.output.lines = << 2 >>
    /\ ~out.results_for_metrics[1] /\ out.results_for_metrics[2]
    /\ out.description.ok = 1 /\ out.description.fail = 1


\* The normalized key of the k-th line of the checker's input.
NormAt(k) == dedup.normalize_proxy_link[dedup.keys[k].link]

\* The input lines a deduplication has to keep: a key that is not empty,
\* on the first line that has it.
FirstOfKey ==
    { p \in DOMAIN dedup.keys :
        /\ NormAt(p) # NoNorm
        /\ \A q \in 1..(p - 1) : NormAt(q) # NormAt(p) }

\* C31: once the candidates are scheduled, no two of them have the same
\* normalized key and none has an empty one; they are exactly the first
\* input line of every non-empty key, in input order; and the mapping
\* from link to line has one entry per candidate, that candidate's own.
C31_DedupByNormalizedKey ==
    dedup.phase = "scheduled"
        => /\ \A i, j \in DOMAIN dedup.links_only :
                 i # j => dedup.normalize_proxy_link[dedup.links_only[i]]
                             # dedup.normalize_proxy_link[dedup.links_only[j]]
           /\ \A i \in DOMAIN dedup.links_only :
                 dedup.normalize_proxy_link[dedup.links_only[i]] # NoNorm
           /\ dedup.total = Cardinality(FirstOfKey)
           /\ Len(dedup.links_only) = dedup.total
           /\ \A k \in 1..dedup.total :
                 LET p == CHOOSE p \in FirstOfKey :
                            Cardinality({ q \in FirstOfKey : q <= p }) = k
                 IN  /\ dedup.unique[k] = dedup.keys[p]
                     /\ dedup.links_only[k] = dedup.keys[p].link
                     /\ dedup.link_to_full[dedup.keys[p].link]
                           = dedup.keys[p].full
           /\ Cardinality(DOMAIN dedup.link_to_full) = dedup.total

\* Two links with one key, the second dropped; a link with an empty key
\* dropped; a third key kept after them.
C31_Witness ==
    /\ dedup.phase = "scheduled"
    /\ Len(dedup.keys) = 3
    /\ dedup.keys[1].link # dedup.keys[2].link
    /\ NormAt(1) = NormAt(2)
    /\ NormAt(1) # NoNorm
    /\ NormAt(3) # NoNorm
    /\ NormAt(3) # NormAt(1)
    /\ dedup.links_only = << dedup.keys[1].link, dedup.keys[3].link >>
    /\ dedup.total = 2

\* A line whose key is empty is read between two kept lines.
C31_WitnessEmptyKey ==
    /\ dedup.phase = "scheduled"
    /\ Len(dedup.keys) = 3
    /\ NormAt(2) = NoNorm
    /\ dedup.links_only = << dedup.keys[1].link, dedup.keys[3].link >>


\* C34: whenever the entrypoint has launched a checker the firewall is in
\* force, and a run that ended at the whitelist download or at iptables
\* ended with status 1 and launched nothing.
C34_FirewallBeforeCheckers ==
    /\ [](entry.pc # "idle" /\ entry.launched # << >> => entry.firewall)
    /\ [][entry.pc \in {"whitelist", "iptables"} /\ entry'.pc = "exited"
            => entry'.exit = 1 /\ entry'.launched = << >>]_vars

\* The step of the entrypoint launched a program.
Launched == Len(entry'.launched) = Len(entry.launched) + 1

\* C35: a non-zero status of vless_checker ends the run with that status
\* before anything else is launched or written; whatever hysteria_checker
\* and the two speedtests return, the run goes on to the next stage; after
\* a speedtest that failed or left no filled output the content merged is
\* the list it was given; and the merge stage writes the result and exits
\* with 0.
C35_OnlyXrayFailureAborts ==
    /\ [][entry.pc = "xray" /\ Launched
            => IF entry'.rets[Len(entry'.rets)] # 0
               THEN /\ entry'.pc = "exited"
                    /\ entry'.exit = entry'.rets[Len(entry'.rets)]
                    /\ ~entry'.written
               ELSE entry'.pc = "hysteria"]_vars
    /\ [](entry.pc = "exited" /\ ~entry.written => Len(entry.launched) <= 1)
    /\ [][entry.pc = "hysteria" => entry'.pc = "xray_st"]_vars
    /\ [][entry.pc = "xray_st"
            => /\ entry'.pc = "hysteria_st"
               /\ Launched /\ \/ entry'.rets[Len(entry'.rets)] # 0
                              \/ entry'.files.wl_st # "filled"
                     => entry'.xray_content = "wl"]_vars
    /\ [][entry.pc = "hysteria_st"
            => /\ entry'.pc = "merge"
               /\ Launched /\ \/ entry'.rets[Len(entry'.rets)] # 0
                              \/ entry'.files.hysteria_st # "filled"
                     => entry'.hysteria_content = "hysteria"]_vars
    /\ [][entry.pc = "merge"
            => /\ entry'.pc = "exited" /\ entry'.exit = 0
               /\ entry'.written]_vars

\* All four programs ran; hysteria_checker and the Xray speedtest failed,
\* the Hysteria speedtest returned 0 with an empty output.
C35_Witness ==
    /\ entry.pc = "exited"
    /\ entry.exit = 0
    /\ entry.written
    /\ entry.launched = << "vless_checker", "hysteria_checker",
                           "speedtest_checker", "speedtest_hysteria" >>
    /\ entry.rets = << 0, 1, 2, 0 >>
    /\ entry.files.hysteria_st = "empty"
    /\ entry.xray_content = "wl"
    /\ entry.hysteria_content = "hysteria"

\* vless_checker returned 2 and the run ended there with status 2.
C35_WitnessAbort ==
    /\ entry.pc = "exited"
    /\ entry.exit = 2
    /\ entry.launched = << "vless_checker" >>
    /\ entry.rets = << 2 >>
    /\ entry.firewall
    /\ ~entry.written


\* The lines of the two stages, Xray first, as they were read.
StageLines == merge.xray_content \o merge.hysteria_content

\* The lines a merge has to keep: the first line of every link.
FirstOfLink ==
    { p \in DOMAIN StageLines :
        /\ StageLines[p].link # 0
        /\ \A q \in 1..(p - 1) : StageLines[q].link # StageLines[p].link }

\* C36: the merged list written has no two lines with the same link once
\* the fragment is cut; it is the first line of every link, the lines
\* taken from the Xray list before those taken from the Hysteria list,
\* each group in the order it was read; and the top100 file is its first
\* min(100, n) lines.
C36_MergedListDeduplicated ==
    merge.phase = "written"
        => LET n == Len(merge.white_list)
               F == FirstOfLink
               nx == Cardinality({ p \in F : p <= Len(merge.xray_content) })
           IN  /\ \A i, j \in 1..n :
                     i # j => merge.white_list[i].link
                                 # merge.white_list[j].link
               /\ n = Cardinality(F)
               /\ \A p \in F :
                     merge.white_list[Cardinality({ q \in F : q <= p })]
                        = StageLines[p]
               /\ \A k \in 1..n :
                     IF k <= nx
                     THEN \E p \in DOMAIN merge.xray_content :
                             merge.white_list[k] = merge.xray_content[p]
                     ELSE \E p \in DOMAIN merge.hysteria_content :
                             merge.white_list[k] = merge.hysteria_content[p]
               /\ Len(merge.top100) = IF n < 100 THEN n ELSE 100
               /\ \A k \in 1..Len(merge.top100) :
                     merge.top100[k] = merge.white_list[k]

\* More than 100 Xray lines followed by a Hysteria line that repeats the
\* first link with another fragment: the repeat is dropped and the top100
\* file stops at 100 lines.
C36_Witness ==
    /\ merge.phase = "written"
    /\ merge.xray_content = LongList
    /\ merge.hysteria_content = << [link |-> 1, frag |-> "x"] >>
    /\ Len(merge.white_list) = TopN + MaxOver
    /\ Len(merge.top100) = 100
    /\ merge.top100[100].link = 100

\* Short lists: a link repeated inside the Xray list with another
\* fragment, a Hysteria link kept after it.
C36_WitnessShort ==
    /\ merge.phase = "written"
    /\ merge.xray_content = << [link |-> 2, frag |-> "x"],
                               [link |-> 2, frag |-> ""] >>
    /\ merge.hysteria_content = << [link |-> 0, frag |-> "x"],
                                   [link |-> 1, frag |-> ""] >>
    /\ merge.white_list = << [link |-> 2, frag |-> "x"],
                             [link |-> 1, frag |-> ""] >>
    /\ merge.top100 = merge.white_list


\* The rules as the exclusion list states them: "host:port" lines with a
\* host and "host" lines, hosts normalized.
ExactRules ==
    { << _normalize_host(r.host), r.port >> :
        r \in { filt.rules[k] : k \in { j \in DOMAIN filt.rules :
                   filt.rules[j].kind = "endpoint"
                      /\ filt.rules[j].host # "" } } }

HostRules ==
    { _normalize_host(r.host) :
        r \in { filt.rules[k] : k \in { j \in DOMAIN filt.rules :
                   filt.rules[j].kind = "host" } } }

\* The line is a link with an endpoint that a rule names.
Excluded(line) ==
    /\ line.kind = "proxy"
    /\ \/ << _normalize_host(line.address), line.port >> \in ExactRules
       \/ _normalize_host(line.address) \in HostRules

Kept(line) == ~Excluded(line)

\* C37: the filter's output is its input without the lines whose endpoint
\* an exact rule or a host-only rule names, in input order; blank lines,
\* comments and links that do not parse are all in it; and with no rule
\* the output is the input.
C37_DropsExactlyExcluded ==
    filt.phase = "done"
        => /\ filt.stdout = SelectSeq(filt.lines, Kept)
           /\ filt.excluded_count = Len(filt.lines) - Len(filt.stdout)
           /\ ExactRules = {} /\ HostRules = {} => filt.stdout = filt.lines

\* A host-only rule in upper case drops a link to the same domain in
\* lower case; an exact rule for another port leaves a link alone.
C37_Witness ==
    /\ filt.phase = "done"
    /\ filt.rules = << [kind |-> "host", host |-> "A.com", port |-> 0],
                       [kind |-> "endpoint", host |-> "1.2.3.4",
                        port |-> 443] >>
    /\ filt.lines = << [kind |-> "proxy", address |-> "a.com",
                        port |-> 8443],
                       [kind |-> "proxy", address |-> "1.2.3.4",
                        port |-> 8443] >>
    /\ filt.stdout = << filt.lines[2] >>

\* An exact rule drops the link it names and leaves a comment in place.
C37_WitnessExact ==
    /\ filt.phase = "done"
    /\ filt.rules = << [kind |-> "endpoint", host |-> "a.com",
                        port |-> 443] >>
    /\ filt.lines = << [kind |-> "comment", address |-> "", port |-> 0],
                       [kind |-> "proxy", address |-> "A.com",
                        port |-> 443] >>
    /\ filt.stdout = << filt.lines[1] >>


\* The step looks up the address of the current line.
LooksUp(ip) ==
    /\ geo.phase = "loop"
    /\ geo.i <= Len(geo.ips)
    /\ geo.add_comment
    /\ geo.ips[geo.i] = ip
    /\ geo'.i = geo.i + 1

\* C38: in one run no address is requested from the geolocation service
\* more than once; every lookup of an address, answered or failed, leaves
\* a cache entry for it; a lookup of an address that has an entry returns
\* the entry and sends no request; and an entry never changes.
C38_OneRequestPerIp ==
    /\ [](geo.phase # "idle"
            => \A ip \in 1..MaxIps :
                  /\ geo.requests[ip] <= 1
                  /\ geo.requests[ip] = 1 <=> geo.geo_cache[ip] # "unset")
    /\ [][\A ip \in 1..MaxIps :
            /\ LooksUp(ip) => geo'.geo_cache[ip] # "unset"
            /\ LooksUp(ip) /\ geo.geo_cache[ip] # "unset"
                  => /\ geo'.requests = geo.requests
                     /\ geo'.result = Append(geo.result, geo.geo_cache[ip])
            /\ geo.phase # "idle" /\ geo.geo_cache[ip] # "unset"
                  => geo'.geo_cache[ip] = geo.geo_cache[ip]]_vars

\* An address whose first lookup failed is looked up twice more, another
\* address with an answer in between.
C38_Witness ==
    /\ geo.phase = "written"
    /\ geo.add_comment
    /\ geo.ips = << 1, 2, 1 >>
    /\ geo.requests[1] = 1
    /\ geo.requests[2] = 1
    /\ geo.geo_cache[2] = "DE"
    /\ geo.result = << "", "DE", "" >>


====
